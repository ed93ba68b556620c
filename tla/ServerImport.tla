---------------------------- MODULE ServerImport ----------------------------
(***************************************************************************)
(* The one upload slot of the backup restore, proved: whatever deliveries  *)
(* come late, whatever clients cancel and whenever the session expires,    *)
(* the file an import reads is whole, and no directory is left behind.     *)
(***************************************************************************)
EXTENDS ServerJobs

-----------------------------------------------------------------------------
(* The invariant *)

\* Both lines are queues of distinct posts, each post waiting where its line says.
Starting  == {"start", "evict", "mkdir"}
Appending == {"turn", "write", "dropExpired", "dropShort"}

StartOrder ==
    /\ Distinct(startLine)
    /\ \A p \in Posts : p \in Elements(startLine) <=> chunkPost[p].pc \in Starting
    /\ \A p \in Posts : chunkPost[p].pc \in {"evict", "mkdir"} => Head(startLine) = p

AppendOrder ==
    \A u \in Uploads :
        /\ Distinct(appendLine[u])
        /\ \A p \in Posts : p \in Elements(appendLine[u])
                              <=> p[1] = u /\ chunkPost[p].pc \in Appending
        /\ \A p \in Posts : p[1] = u /\ chunkPost[p].pc \in Appending \ {"turn"}
                              => Head(appendLine[u]) = p

\* What a handler has asked the disk to remove is gone; who makes a directory has
\* found the slot empty, and nobody fills it before.
PostSound(p) ==
    LET t == chunkPost[p] IN
    /\ t.pc \in {"evict", "dropExpired", "dropShort", "clear"} => t.dir \in gone
    /\ t.pc = "mkdir" => active = NoSession
    /\ t.pc \in {"write", "restore"} => t.dir \in Dirs
    /\ IF t.pc \in {"never", "off"} THEN t.dir = 0 ELSE t.chunk \in Chunks

CancelSound ==
    \A u \in Uploads : IF cancel[u].pc = "clear" THEN cancel[u].dir \in gone
                       ELSE cancel[u].dir = 0

\* Only a client that has quit cancels; one about to send has no post under way.
ClientSound(u) ==
    /\ cancel[u].pc # "no" => client[u].pc = "quit"
    /\ client[u].pc = "next" => /\ client[u].sent < NChunks
                                /\ chunkPost[<<u, 1>>].pc \in {"off", "ok", "failed"}

Clients == \A u \in Uploads : ClientSound(u)

Bytes(n) == IF n = NChunks THEN TotalSize ELSE 2 * n

\* The session in the slot, and its file.
SlotSound ==
    active # NoSession =>
        /\ active.received <= NChunks
        /\ active.bytes = Bytes(active.received)
        /\ active.importing => active.received = NChunks
        /\ active.dir \notin gone => files[active.dir] = [i \in 1..active.received |-> i]
        /\ active.dir \in gone => \/ active.expired \/ active.importing
                                  \/ client[active.upload].pc = "quit"

\* One that writes to the file of the session in the slot.
Writing(p) == chunkPost[p].pc = "write" /\ active # NoSession /\ active.dir = chunkPost[p].dir

WriterSound(p) ==
    /\ p[1] = active.upload
    /\ chunkPost[p].chunk = active.received + 1
    /\ ~active.expired
    /\ client[p[1]].pc = "quit" \/ active.dir \notin gone

Reading(p) == chunkPost[p].pc = "restore" /\ active # NoSession /\ active.dir = chunkPost[p].dir

ReaderSound(p) ==
    /\ Reading(p) => active.importing /\ active.upload = p[1]
    /\ \A q \in Posts : Reading(p) /\ Reading(q) => p = q
    /\ chunkPost[p].pc = "restore" /\ client[p[1]].pc # "quit"
         => Reading(p) /\ active.dir \notin gone

Orderly ==
    /\ \A d \in Dirs \ gone : active # NoSession /\ active.dir = d
    /\ SlotSound
    /\ \A p \in Posts : Writing(p) => WriterSound(p)
    /\ \A p \in Posts : ReaderSound(p)
    /\ \A p \in Posts : chunkPost[p].pc # "dropShort"

ImportTidy ==
    /\ ImportTypeOK /\ StartOrder /\ AppendOrder /\ CancelSound /\ Clients
    /\ \A p \in Posts : PostSound(p)

ImportHeld == ImportTidy /\ (crossed \/ Orderly)
-----------------------------------------------------------------------------
(* A step of the process seen from the slot *)

ImportMove == ImportStep \/ LoseImport \/ UNCHANGED importVars

LEMMA ImportSees == [ServerNext]_serverVars => ImportMove
<1>1. ASSUME ServerNext  PROVE ImportMove
  BY <1>1 DEF ServerNext, ImportMove, InFollowUp, InAgents, InScans, InImports, Webhooks,
              Access, workVars, Restart
<1>2. ASSUME UNCHANGED serverVars  PROVE ImportMove
  BY <1>2 DEF serverVars, workVars, ImportMove
<1> QED
  BY <1>1, <1>2

-----------------------------------------------------------------------------
(* The two lines *)

\* The head leaves a line of distinct posts.
LEMMA HeadLeaves ==
  ASSUME NEW line \in Seq(Posts), Distinct(line), NEW p \in Elements(line), Head(line) = p
  PROVE  /\ Tail(line) \in Seq(Posts) /\ Distinct(Tail(line))
         /\ Elements(Tail(line)) = Elements(line) \ {p}
<1>1. line # <<>> /\ Len(line) \in Nat \ {0} /\ line[1] = p
  BY DEF Elements
<1>2. /\ Tail(line) \in Seq(Posts) /\ Len(Tail(line)) = Len(line) - 1
      /\ \A i \in 1..Len(Tail(line)) : Tail(line)[i] = line[i + 1]
  BY <1>1
<1>3. Distinct(Tail(line))
  BY <1>1, <1>2 DEF Distinct
<1>4. ASSUME NEW q \in Elements(Tail(line))  PROVE q \in Elements(line) \ {p}
  <2>1. PICK i \in 1..Len(Tail(line)) : q = line[i + 1]
    BY <1>2 DEF Elements
  <2>2. i + 1 \in 1..Len(line) /\ 1 \in 1..Len(line) /\ i + 1 # 1
    BY <1>1, <1>2
  <2> QED
    BY <1>1, <2>1, <2>2 DEF Elements, Distinct
<1>5. ASSUME NEW q \in Elements(line), q # p  PROVE q \in Elements(Tail(line))
  <2>1. PICK i \in 1..Len(line) : q = line[i]
    BY DEF Elements
  <2>2. i - 1 \in 1..Len(Tail(line)) /\ Tail(line)[i - 1] = q
    BY <1>1, <1>2, <1>5, <2>1
  <2> QED
    BY <2>2 DEF Elements
<1> QED
  BY <1>2, <1>3, <1>4, <1>5

\* A post that is not in a line joins it at the end.
LEMMA LastJoins ==
  ASSUME NEW line \in Seq(Posts), Distinct(line), NEW p \in Posts \ Elements(line)
  PROVE  /\ Append(line, p) \in Seq(Posts) /\ Distinct(Append(line, p))
         /\ Elements(Append(line, p)) = Elements(line) \cup {p}
         /\ Elements(line) # {} => Head(Append(line, p)) = Head(line)
<1>1. /\ Append(line, p) \in Seq(Posts) /\ Len(Append(line, p)) = Len(line) + 1
      /\ \A i \in 1..Len(line) : Append(line, p)[i] = line[i]
      /\ Append(line, p)[Len(line) + 1] = p
      /\ Len(line) \in Nat
  OBVIOUS
<1>2. Distinct(Append(line, p))
  BY <1>1 DEF Distinct, Elements
<1>3. ASSUME NEW q \in Elements(line)  PROVE q \in Elements(Append(line, p))
  <2>1. PICK i \in 1..Len(line) : q = line[i]
    BY DEF Elements
  <2> QED
    BY <1>1, <2>1 DEF Elements
<1>4. p \in Elements(Append(line, p))
  BY <1>1 DEF Elements
<1>5. ASSUME NEW q \in Elements(Append(line, p))  PROVE q \in Elements(line) \cup {p}
  <2>1. PICK i \in 1..(Len(line) + 1) : q = Append(line, p)[i]
    BY <1>1 DEF Elements
  <2> QED
    BY <1>1, <2>1 DEF Elements
<1>6. Elements(line) # {} => Head(Append(line, p)) = Head(line)
  <2> SUFFICES ASSUME Elements(line) # {}  PROVE Head(Append(line, p)) = Head(line)
    OBVIOUS
  <2>1. Len(line) > 0
    BY <1>1 DEF Elements
  <2>2. Append(line, p)[1] = line[1] /\ line # <<>> /\ Append(line, p) # <<>>
    BY <1>1, <2>1
  <2> QED
    BY <1>1, <2>2
<1> QED
  BY <1>1, <1>2, <1>3, <1>4, <1>5, <1>6

\* Nobody joins or leaves the start line; who holds the mutex is at its head.
LEMMA StartKept ==
  ASSUME StartOrder, startLine' = startLine,
         \A q \in Posts : chunkPost'[q].pc \in Starting <=> chunkPost[q].pc \in Starting,
         \A q \in Posts : chunkPost'[q].pc \in {"evict", "mkdir"} /\ chunkPost'[q] # chunkPost[q]
                            => Head(startLine) = q
  PROVE  StartOrder'
BY DEF StartOrder

\* The holder of the mutex leaves the start line.
LEMMA StartLeft ==
  ASSUME ImportTypeOK, StartOrder, NEW p \in Posts, chunkPost[p].pc \in Starting,
         Head(startLine) = p, startLine' = Tail(startLine),
         chunkPost'[p].pc \notin Starting,
         \A q \in Posts \ {p} : chunkPost'[q] = chunkPost[q]
  PROVE  startLine' \in Seq(Posts) /\ StartOrder'
<1>1. startLine \in Seq(Posts) /\ Distinct(startLine) /\ p \in Elements(startLine)
  BY DEF ImportTypeOK, StartOrder
<1>2. /\ startLine' \in Seq(Posts) /\ Distinct(startLine')
      /\ Elements(startLine') = Elements(startLine) \ {p}
  BY <1>1, HeadLeaves
<1>3. \A q \in Posts : q \in Elements(startLine') <=> chunkPost'[q].pc \in Starting
  BY <1>2 DEF StartOrder
<1>4. \A q \in Posts : chunkPost'[q].pc \notin {"evict", "mkdir"}
  BY DEF StartOrder, Starting
<1> QED
  BY <1>2, <1>3, <1>4 DEF StartOrder

LEMMA StartJoined ==
  ASSUME ImportTypeOK, StartOrder, NEW p \in Posts, chunkPost[p].pc \notin Starting,
         startLine' = Append(startLine, p), chunkPost'[p].pc = "start",
         \A q \in Posts \ {p} : chunkPost'[q] = chunkPost[q]
  PROVE  startLine' \in Seq(Posts) /\ StartOrder'
<1>1. startLine \in Seq(Posts) /\ Distinct(startLine) /\ p \in Posts \ Elements(startLine)
  BY DEF ImportTypeOK, StartOrder
<1>2. /\ startLine' \in Seq(Posts) /\ Distinct(startLine')
      /\ Elements(startLine') = Elements(startLine) \cup {p}
      /\ Elements(startLine) # {} => Head(startLine') = Head(startLine)
  BY <1>1, LastJoins
<1>3. \A q \in Posts : q \in Elements(startLine') <=> chunkPost'[q].pc \in Starting
  BY <1>2 DEF StartOrder, Starting
<1>4. ASSUME NEW q \in Posts, chunkPost'[q].pc \in {"evict", "mkdir"}
      PROVE  Head(startLine') = q
  BY <1>2, <1>4 DEF StartOrder, Starting
<1> QED
  BY <1>2, <1>3, <1>4 DEF StartOrder

\* The same for the append line of each upload.
LEMMA AppendKept ==
  ASSUME AppendOrder, appendLine' = appendLine,
         \A q \in Posts : chunkPost'[q].pc \in Appending <=> chunkPost[q].pc \in Appending,
         \A q \in Posts : chunkPost'[q].pc \in Appending \ {"turn"} /\ chunkPost'[q] # chunkPost[q]
                            => Head(appendLine[q[1]]) = q
  PROVE  AppendOrder'
BY DEF AppendOrder

LEMMA AppendLeft ==
  ASSUME ImportTypeOK, AppendOrder, NEW p \in Posts, chunkPost[p].pc \in Appending,
         Head(appendLine[p[1]]) = p, NextInLine(p[1]),
         chunkPost'[p].pc \notin Appending,
         \A q \in Posts \ {p} : chunkPost'[q] = chunkPost[q]
  PROVE  appendLine' \in [Uploads -> Seq(Posts)] /\ AppendOrder'
<1> DEFINE u == p[1]
<1>1. /\ u \in Uploads /\ appendLine \in [Uploads -> Seq(Posts)]
      /\ Distinct(appendLine[u]) /\ p \in Elements(appendLine[u])
  BY DEF ImportTypeOK, AppendOrder, Posts
<1> HIDE DEF u
<1>2. /\ Tail(appendLine[u]) \in Seq(Posts) /\ Distinct(Tail(appendLine[u]))
      /\ Elements(Tail(appendLine[u])) = Elements(appendLine[u]) \ {p}
  BY <1>1, HeadLeaves DEF u
<1>3. appendLine' = [appendLine EXCEPT ![u] = Tail(appendLine[u])]
  BY DEF NextInLine, u
<1>4. ASSUME NEW v \in Uploads
      PROVE  /\ Distinct(appendLine'[v])
             /\ \A q \in Posts : q \in Elements(appendLine'[v])
                                   <=> q[1] = v /\ chunkPost'[q].pc \in Appending
             /\ \A q \in Posts : q[1] = v /\ chunkPost'[q].pc \in Appending \ {"turn"}
                                   => Head(appendLine'[v]) = q
  <2>1. CASE v = u
    <3>1. appendLine'[v] = Tail(appendLine[u])
      BY <1>1, <1>3, <2>1
    <3>2. \A q \in Posts : q[1] = v => chunkPost'[q].pc \notin Appending \ {"turn"}
      BY <1>1, <2>1 DEF AppendOrder, u
    <3>3. \A q \in Posts : q \in Elements(appendLine'[v])
                             <=> q[1] = v /\ chunkPost'[q].pc \in Appending
      BY <1>1, <1>2, <2>1, <3>1 DEF AppendOrder, u
    <3> QED
      BY <1>2, <3>1, <3>2, <3>3
  <2>2. CASE v # u
    BY <1>1, <1>3, <2>2 DEF AppendOrder, u
  <2> QED
    BY <2>1, <2>2
<1>5. appendLine' \in [Uploads -> Seq(Posts)]
  BY <1>1, <1>2, <1>3
<1> QED
  BY <1>4, <1>5 DEF AppendOrder

LEMMA AppendJoined ==
  ASSUME ImportTypeOK, AppendOrder, NEW p \in Posts, chunkPost[p].pc \notin Appending,
         appendLine' = [appendLine EXCEPT ![p[1]] = Append(@, p)], chunkPost'[p].pc = "turn",
         \A q \in Posts \ {p} : chunkPost'[q] = chunkPost[q]
  PROVE  appendLine' \in [Uploads -> Seq(Posts)] /\ AppendOrder'
<1> DEFINE u == p[1]
<1>1. /\ u \in Uploads /\ appendLine \in [Uploads -> Seq(Posts)]
      /\ Distinct(appendLine[u]) /\ p \in Posts \ Elements(appendLine[u])
  BY DEF ImportTypeOK, AppendOrder, Posts
<1> HIDE DEF u
<1>2. /\ Append(appendLine[u], p) \in Seq(Posts) /\ Distinct(Append(appendLine[u], p))
      /\ Elements(Append(appendLine[u], p)) = Elements(appendLine[u]) \cup {p}
      /\ Elements(appendLine[u]) # {} => Head(Append(appendLine[u], p)) = Head(appendLine[u])
  BY <1>1, LastJoins
<1>3. appendLine' = [appendLine EXCEPT ![u] = Append(appendLine[u], p)]
  BY DEF u
<1>4. ASSUME NEW v \in Uploads
      PROVE  /\ Distinct(appendLine'[v])
             /\ \A q \in Posts : q \in Elements(appendLine'[v])
                                   <=> q[1] = v /\ chunkPost'[q].pc \in Appending
             /\ \A q \in Posts : q[1] = v /\ chunkPost'[q].pc \in Appending \ {"turn"}
                                   => Head(appendLine'[v]) = q
  <2>1. CASE v = u
    <3>1. appendLine'[v] = Append(appendLine[u], p)
      BY <1>1, <1>3, <2>1
    <3>2. \A q \in Posts : q \in Elements(appendLine'[v])
                             <=> q[1] = v /\ chunkPost'[q].pc \in Appending
      BY <1>1, <1>2, <2>1, <3>1 DEF AppendOrder, Appending, u
    <3>3. ASSUME NEW q \in Posts, q[1] = v, chunkPost'[q].pc \in Appending \ {"turn"}
          PROVE  Head(appendLine'[v]) = q
      <4>1. q # p /\ chunkPost[q].pc \in Appending \ {"turn"}
        BY <3>3
      <4>2. q \in Elements(appendLine[u]) /\ Head(appendLine[u]) = q
        BY <1>1, <2>1, <3>3, <4>1 DEF AppendOrder
      <4> QED
        BY <1>2, <3>1, <4>2
    <3> QED
      BY <1>2, <3>1, <3>2, <3>3
  <2>2. CASE v # u
    <3>1. appendLine'[v] = appendLine[v] /\ p[1] # v
      BY <1>1, <1>3, <2>2 DEF u
    <3>2. \A q \in Posts : q[1] = v => chunkPost'[q] = chunkPost[q]
      BY <3>1
    <3> QED
      BY <3>1, <3>2 DEF AppendOrder
  <2> QED
    BY <2>1, <2>2
<1>5. appendLine' \in [Uploads -> Seq(Posts)]
  BY <1>1, <1>2, <1>3
<1> QED
  BY <1>4, <1>5 DEF AppendOrder

-----------------------------------------------------------------------------
(* One handler moves *)

PostPcs == {"never", "off", "start", "body", "turn", "restore", "ok", "restored", "failed",
            "evict", "mkdir", "write", "dropExpired", "dropShort", "clear"}

PostRecord(n) == [pc : PostPcs, chunk : Chunks \cup {0}, dir : 0..n]

LEMMA PostTypes == ImportTypeOK => /\ chunkPost \in [Posts -> PostRecord(Len(files))]
                                   /\ Len(files) \in Nat
BY DEF ImportTypeOK, PostRecord, PostPcs, OnDisk

LEMMA HandlerMoved ==
  ASSUME ImportTypeOK, NEW p \in Posts, NEW pc \in PostPcs, NEW d, MovesFor(p, pc, d),
         Len(files') \in Nat, Len(files) <= Len(files'), d \in 0..Len(files')
  PROVE  /\ chunkPost' \in [Posts -> PostRecord(Len(files'))]
         /\ chunkPost'[p].pc = pc /\ chunkPost'[p].dir = d
         /\ chunkPost'[p].chunk = chunkPost[p].chunk
         /\ \A q \in Posts \ {p} : chunkPost'[q] = chunkPost[q]
<1>1. chunkPost \in [Posts -> PostRecord(Len(files))] /\ Len(files) \in Nat
  BY PostTypes
<1>2. chunkPost' = [chunkPost EXCEPT ![p].pc = pc, ![p].dir = d]
  BY DEF MovesFor
<1>3. PostRecord(Len(files)) \subseteq PostRecord(Len(files'))
  BY <1>1 DEF PostRecord
<1>4. chunkPost' \in [Posts -> PostRecord(Len(files'))]
  <2>1. chunkPost \in [Posts -> PostRecord(Len(files'))]
    BY <1>1, <1>3
  <2> QED
    BY <1>2, <2>1 DEF PostRecord
<1>5. /\ chunkPost'[p].pc = pc /\ chunkPost'[p].dir = d
      /\ chunkPost'[p].chunk = chunkPost[p].chunk
  BY <1>1, <1>2 DEF PostRecord
<1>6. \A q \in Posts \ {p} : chunkPost'[q] = chunkPost[q]
  BY <1>1, <1>2
<1> QED
  BY <1>4, <1>5, <1>6

\* Moves without a directory to remember.
LEMMA MovesIsMovesFor == \A p, pc : Moves(p, pc) <=> MovesFor(p, pc, 0)
BY DEF Moves, MovesFor

\* The session in the slot has a directory, and removing it leaves the others alone.
LEMMA DirRemoved ==
  ASSUME ImportTypeOK, active # NoSession, RemoveDir
  PROVE  /\ files' \in Seq(Seq(Chunks)) /\ Len(files') = Len(files) /\ Len(files) \in Nat
         /\ active.dir \in Dirs
         /\ gone' = gone \cup {active.dir} /\ gone' \subseteq 1..Len(files')
         /\ \A d \in Dirs \ {active.dir} : files'[d] = files[d]
<1>1. active.dir \in 1..Len(files) /\ files \in Seq(Seq(Chunks)) /\ Len(files) \in Nat
  BY DEF ImportTypeOK, Session, Dirs
<1>2. <<>> \in Seq(Chunks)
  OBVIOUS
<1>3. files' = [files EXCEPT ![active.dir] = <<>>]
  BY DEF RemoveDir
<1>4. files' \in Seq(Seq(Chunks)) /\ Len(files') = Len(files)
  BY <1>1, <1>2, <1>3
<1>5. \A d \in 1..Len(files) : d # active.dir => files'[d] = files[d]
  BY <1>1, <1>3
<1> QED
  BY <1>1, <1>4, <1>5 DEF RemoveDir, Dirs, ImportTypeOK

LEMMA ActiveKept ==
  ASSUME ImportTypeOK, active' = active \/ active' = NoSession, Len(files') = Len(files)
  PROVE  active' \in Session' \cup {NoSession}
BY DEF ImportTypeOK, Session, Dirs

\* How the lines follow the step of a handler p that goes to pc.
StartMoves(p, pc) ==
    \/ /\ startLine' = startLine
       /\ chunkPost[p].pc \in Starting <=> pc \in Starting
       /\ pc \in {"evict", "mkdir"} => Head(startLine) = p
    \/ /\ startLine' = Tail(startLine) /\ Head(startLine) = p
       /\ chunkPost[p].pc \in Starting /\ pc \notin Starting

AppendMoves(p, pc) ==
    \/ /\ appendLine' = appendLine
       /\ chunkPost[p].pc \in Appending <=> pc \in Appending
       /\ pc \in Appending \ {"turn"} => Head(appendLine[p[1]]) = p
    \/ /\ NextInLine(p[1]) /\ Head(appendLine[p[1]]) = p
       /\ chunkPost[p].pc \in Appending /\ pc \notin Appending
    \/ /\ appendLine' = [appendLine EXCEPT ![p[1]] = Append(@, p)]
       /\ chunkPost[p].pc \notin Appending /\ pc = "turn"

\* What a handler's step must show for the lines, the disk and the clients to stay in order.
LEMMA Handled ==
  ASSUME ImportTidy, NEW p \in Posts, NEW pc \in PostPcs, NEW d, MovesFor(p, pc, d),
         d \in 0..Len(files'),
         chunkPost[p].pc \notin {"never", "off", "ok", "failed", "restored"},
         pc \notin {"never", "off"},
         files' \in Seq(Seq(Chunks)), Len(files) <= Len(files'),
         gone \subseteq gone', gone' \subseteq 1..Len(files'),
         active' \in Session' \cup {NoSession},
         active = NoSession => active' = NoSession \/ chunkPost[p].pc = "mkdir",
         pc \in {"evict", "dropExpired", "dropShort", "clear"} => d \in gone',
         pc = "mkdir" => active' = NoSession,
         pc \in {"write", "restore"} => d # 0,
         UNCHANGED <<client, cancel>>, crossed' \in BOOLEAN,
         StartMoves(p, pc), AppendMoves(p, pc)
  PROVE  ImportTidy'
<1>1. Len(files) \in Nat /\ Len(files') \in Nat /\ ImportTypeOK
  BY PostTypes DEF ImportTidy
<1>2. /\ chunkPost' \in [Posts -> PostRecord(Len(files'))]
      /\ chunkPost'[p].pc = pc /\ chunkPost'[p].chunk = chunkPost[p].chunk
      /\ chunkPost'[p].dir = d
      /\ \A q \in Posts \ {p} : chunkPost'[q] = chunkPost[q]
  BY <1>1, HandlerMoved
<1>3. startLine' \in Seq(Posts) /\ StartOrder'
  <2>1. startLine \in Seq(Posts) /\ StartOrder
    BY DEF ImportTidy, ImportTypeOK
  <2>2. CASE /\ startLine' = startLine
             /\ chunkPost[p].pc \in Starting <=> pc \in Starting
             /\ pc \in {"evict", "mkdir"} => Head(startLine) = p
    BY <1>2, <2>1, <2>2, StartKept
  <2>3. CASE /\ startLine' = Tail(startLine) /\ Head(startLine) = p
             /\ chunkPost[p].pc \in Starting /\ pc \notin Starting
    BY <1>1, <1>2, <2>1, <2>3, StartLeft
  <2> QED
    BY <2>2, <2>3 DEF StartMoves
<1>4. appendLine' \in [Uploads -> Seq(Posts)] /\ AppendOrder'
  <2>1. appendLine \in [Uploads -> Seq(Posts)] /\ AppendOrder
    BY DEF ImportTidy, ImportTypeOK
  <2>2. CASE /\ appendLine' = appendLine
             /\ chunkPost[p].pc \in Appending <=> pc \in Appending
             /\ pc \in Appending \ {"turn"} => Head(appendLine[p[1]]) = p
    BY <1>2, <2>1, <2>2, AppendKept
  <2>3. CASE /\ NextInLine(p[1]) /\ Head(appendLine[p[1]]) = p
             /\ chunkPost[p].pc \in Appending /\ pc \notin Appending
    BY <1>1, <1>2, <2>1, <2>3, AppendLeft
  <2>4. CASE /\ appendLine' = [appendLine EXCEPT ![p[1]] = Append(@, p)]
             /\ chunkPost[p].pc \notin Appending /\ pc = "turn"
    BY <1>1, <1>2, <2>1, <2>4, AppendJoined
  <2> QED
    BY <2>2, <2>3, <2>4 DEF AppendMoves
<1>5. \A q \in Posts : PostSound(q)'
  <2>1. PostSound(p)'
    <3>1. chunkPost[p].chunk \in Chunks
      BY DEF ImportTidy, PostSound
    <3> QED
      BY <1>1, <1>2, <3>1 DEF PostSound, Dirs
  <2>2. ASSUME NEW q \in Posts, q # p  PROVE PostSound(q)'
    <3>1. PostSound(q) /\ chunkPost'[q] = chunkPost[q]
      BY <1>2, <2>2 DEF ImportTidy
    <3>2. chunkPost[q].pc = "mkdir" => chunkPost[p].pc # "mkdir"
      BY <2>2 DEF ImportTidy, StartOrder
    <3>3. chunkPost[q].pc = "mkdir" => active' = NoSession
      BY <3>1, <3>2 DEF PostSound
    <3>4. chunkPost[q].dir \in Dirs => chunkPost[q].dir \in Dirs'
      BY <1>1 DEF Dirs
    <3> QED
      BY <3>1, <3>3, <3>4 DEF PostSound
  <2> QED
    BY <2>1, <2>2
<1>6. CancelSound' /\ Clients'
  <2>1. CancelSound'
    BY DEF ImportTidy, CancelSound
  <2>2. ASSUME NEW u \in Uploads, client[u].pc = "next"
        PROVE  chunkPost'[<<u, 1>>].pc \in {"off", "ok", "failed"}
    <3>1. <<u, 1>> \in Posts /\ chunkPost[<<u, 1>>].pc \in {"off", "ok", "failed"}
      BY <2>2 DEF Posts, ImportTidy, Clients, ClientSound
    <3>2. <<u, 1>> # p
      BY <3>1
    <3> QED
      BY <1>2, <3>1, <3>2
  <2> QED
    BY <2>1, <2>2 DEF ImportTidy, Clients, ClientSound
<1>7. ImportTypeOK'
  <2>1. /\ client' \in [Uploads -> [pc : {"off", "next", "wait", "quit", "done"},
                                    sent : Chunks \cup {0}]]
        /\ gone' \subseteq Dirs'
    BY <1>1 DEF ImportTypeOK, Dirs
  <2>2. cancel' \in [Uploads -> [pc : {"no", "sent", "clear", "done"}, dir : 0..Len(files')]]
    <3>1. 0..Len(files) \subseteq 0..Len(files')
      BY <1>1
    <3> QED
      BY <1>1, <3>1 DEF ImportTypeOK
  <2>3. chunkPost' \in [Posts -> [pc : PostPcs, chunk : Chunks \cup {0}, dir : 0..Len(files')]]
    BY <1>2 DEF PostRecord
  <2> QED
    BY <1>3, <1>4, <2>1, <2>2, <2>3 DEF ImportTypeOK, PostPcs, OnDisk
<1> QED
  BY <1>3, <1>4, <1>5, <1>6, <1>7 DEF ImportTidy

\* The same for a step that leaves the directories alone, or removes the session's.
LEMMA HandledInPlace ==
  ASSUME ImportTidy, NEW p \in Posts, NEW pc \in PostPcs, NEW d, MovesFor(p, pc, d),
         chunkPost[p].pc \notin {"never", "off", "ok", "failed", "restored"},
         pc \notin {"never", "off"},
         \/ KeepDirs /\ d \in gone \cup {0}
         \/ KeepDirs /\ pc \in {"write", "restore"} /\ d \in Dirs
         \/ RemoveDir /\ active # NoSession /\ d \in gone' \cup {0},
         active' = active \/ active' = NoSession,
         pc \in {"evict", "dropExpired", "dropShort", "clear"} => d # 0,
         pc = "mkdir" => active' = NoSession,
         pc \in {"write", "restore"} => d # 0,
         UNCHANGED <<client, cancel>>, crossed' \in BOOLEAN,
         StartMoves(p, pc), AppendMoves(p, pc)
  PROVE  ImportTidy'
<1>1. /\ ImportTypeOK /\ Len(files) \in Nat /\ files \in Seq(Seq(Chunks))
      /\ gone \subseteq 1..Len(files)
  BY PostTypes DEF ImportTidy, ImportTypeOK, Dirs
<1>2. /\ files' \in Seq(Seq(Chunks)) /\ Len(files') = Len(files)
      /\ gone \subseteq gone' /\ gone' \subseteq 1..Len(files')
      /\ d \in 0..Len(files')
      /\ pc \in {"evict", "dropExpired", "dropShort", "clear"} => d \in gone'
  <2>1. CASE KeepDirs /\ d \in gone \cup {0}
    <3>1. files' = files /\ gone' = gone
      BY <2>1 DEF KeepDirs
    <3> QED
      BY <1>1, <2>1, <3>1
  <2>2. CASE KeepDirs /\ pc \in {"write", "restore"} /\ d \in Dirs
    <3>1. files' = files /\ gone' = gone /\ d \in 1..Len(files)
      BY <2>2 DEF KeepDirs, Dirs
    <3> QED
      BY <1>1, <2>2, <3>1
  <2>3. CASE RemoveDir /\ active # NoSession /\ d \in gone' \cup {0}
    <3>1. /\ files' \in Seq(Seq(Chunks)) /\ Len(files') = Len(files)
          /\ gone' = gone \cup {active.dir} /\ gone' \subseteq 1..Len(files')
      BY <1>1, <2>3, DirRemoved
    <3> QED
      BY <1>1, <2>3, <3>1
  <2> QED
    BY <2>1, <2>2, <2>3
<1>3. active' \in Session' \cup {NoSession}
  BY <1>1, <1>2, ActiveKept
<1>4. Len(files) <= Len(files') /\ (active = NoSession => active' = NoSession)
  BY <1>1, <1>2
<1> QED
  BY <1>2, <1>3, <1>4, Handled

\* A handler that the disk has kept: it is at the head of its line, and what it had removed
\* is gone.
LEMMA HandlerFacts ==
  ASSUME ImportTidy, NEW p \in Posts
  PROVE  /\ chunkPost[p].pc \in {"evict", "mkdir"} => Head(startLine) = p
         /\ chunkPost[p].pc \in {"write", "dropExpired", "dropShort"}
              => Head(appendLine[p[1]]) = p
         /\ chunkPost[p].pc = "mkdir" => active = NoSession
         /\ crossed \in BOOLEAN
         /\ active # NoSession => active.dir \in Dirs
         /\ p[1] \in Uploads
BY DEF ImportTidy, StartOrder, AppendOrder, Appending, PostSound, ImportTypeOK, Session, Posts

LEMMA StartTidy == ASSUME ImportTidy, NEW p \in Posts, Start(p) PROVE ImportTidy'
<1> USE HandledInPlace
<1>1. /\ chunkPost[p].pc = "start" /\ Head(startLine) = p
      /\ UNCHANGED <<active, appendLine, client, cancel, crossed>>
  BY DEF Start, HoldsMutex
<1>2. crossed' \in BOOLEAN
  BY <1>1, HandlerFacts
<1>3. ASSUME NEW pc \in {"failed", "mkdir", "evict", "body"}
      PROVE  AppendMoves(p, pc) /\ pc \in PostPcs
  BY <1>1, <1>3 DEF AppendMoves, Appending, PostPcs
<1>4. CASE Moves(p, "failed") /\ Release /\ KeepDirs
  BY <1>1, <1>2, <1>3, <1>4, MovesIsMovesFor DEF StartMoves, Starting, Release
<1>5. CASE /\ active = NoSession
           /\ Moves(p, "mkdir") /\ KeepDirs /\ UNCHANGED startLine
  BY <1>1, <1>2, <1>3, <1>5, MovesIsMovesFor DEF StartMoves, Starting
<1>6. CASE /\ active # NoSession
           /\ MovesFor(p, "evict", active.dir) /\ RemoveDir /\ UNCHANGED startLine
  <2>1. active.dir \in gone' /\ active.dir # 0
    BY <1>6, HandlerFacts DEF RemoveDir, Dirs
  <2> QED
    BY <1>1, <1>2, <1>3, <1>6, <2>1 DEF StartMoves, Starting
<1>7. CASE Moves(p, "body") /\ Release /\ KeepDirs
  BY <1>1, <1>2, <1>3, <1>7, MovesIsMovesFor DEF StartMoves, Starting, Release
<1> QED
  BY <1>4, <1>5, <1>6, <1>7 DEF Start

LEMMA EvictedTidy == ASSUME ImportTidy, NEW p \in Posts, Evicted(p) PROVE ImportTidy'
<1>1. /\ chunkPost[p].pc = "evict" /\ active' = NoSession /\ KeepDirs
      /\ UNCHANGED <<startLine, appendLine, client, cancel>>
      /\ MovesFor(p, "mkdir", 0)
  BY MovesIsMovesFor DEF Evicted, KeepDirs
<1>2. Head(startLine) = p /\ crossed' \in BOOLEAN
  BY <1>1, HandlerFacts DEF Evicted, Crosses
<1>3. StartMoves(p, "mkdir") /\ AppendMoves(p, "mkdir") /\ "mkdir" \in PostPcs
  BY <1>1, <1>2 DEF StartMoves, Starting, AppendMoves, Appending, PostPcs
<1> QED
  BY <1>1, <1>2, <1>3, HandledInPlace

LEMMA MakeDirTidy == ASSUME ImportTidy, NEW p \in Posts, MakeDir(p) PROVE ImportTidy'
<1>1. /\ chunkPost[p].pc = "mkdir" /\ files' = Append(files, <<>>)
      /\ startLine' = Tail(startLine) /\ MovesFor(p, "body", 0)
      /\ UNCHANGED <<appendLine, gone, client, cancel, crossed>>
      /\ active' = [upload |-> p[1], dir |-> Len(files) + 1, received |-> 0, bytes |-> 0,
                    importing |-> FALSE, expired |-> FALSE]
  BY MovesIsMovesFor DEF MakeDir, Release
<1>2. Head(startLine) = p /\ crossed' \in BOOLEAN /\ p[1] \in Uploads
  BY <1>1, HandlerFacts
<1>3. StartMoves(p, "body") /\ AppendMoves(p, "body") /\ "body" \in PostPcs
  BY <1>1, <1>2 DEF StartMoves, Starting, AppendMoves, Appending, PostPcs
<1>4. files \in Seq(Seq(Chunks)) /\ Len(files) \in Nat /\ gone \subseteq 1..Len(files)
  BY DEF ImportTidy, ImportTypeOK, Dirs
<1>5. files' \in Seq(Seq(Chunks)) /\ Len(files') = Len(files) + 1
  <2>1. <<>> \in Seq(Chunks)
    OBVIOUS
  <2> QED
    BY <1>1, <1>4, <2>1
<1>6. active' \in Session'
  BY <1>1, <1>2, <1>4, <1>5 DEF Session, Dirs
<1>7. /\ Len(files) <= Len(files') /\ 0 \in 0..Len(files')
      /\ gone \subseteq gone' /\ gone' \subseteq 1..Len(files')
  BY <1>1, <1>4, <1>5
<1> QED
  BY <1>1, <1>2, <1>3, <1>5, <1>6, <1>7, Handled

LEMMA LinesTidy ==
  ASSUME ImportTidy, NEW p \in Posts,
         MakeDirThrows(p) \/ ReadBody(p) \/ WriteThrows(p) \/ Dropped(p)
  PROVE  ImportTidy'
<1>1. CASE MakeDirThrows(p)
  <2>1. /\ chunkPost[p].pc = "mkdir" /\ startLine' = Tail(startLine) /\ KeepDirs
        /\ MovesFor(p, "failed", 0) /\ UNCHANGED <<active, appendLine, client, cancel, crossed>>
    BY <1>1, MovesIsMovesFor DEF MakeDirThrows, ReleaseOnThrow, Release, KeepDirs
  <2>2. Head(startLine) = p /\ crossed' \in BOOLEAN
    BY <2>1, HandlerFacts
  <2>3. StartMoves(p, "failed") /\ AppendMoves(p, "failed") /\ "failed" \in PostPcs
    BY <2>1, <2>2 DEF StartMoves, Starting, AppendMoves, Appending, PostPcs
  <2> QED
    BY <2>1, <2>2, <2>3, HandledInPlace
<1>2. CASE ReadBody(p)
  <2>1. /\ chunkPost[p].pc = "body" /\ KeepDirs
        /\ UNCHANGED <<active, startLine, client, cancel, crossed>>
        /\ \/ /\ MovesFor(p, "turn", 0)
              /\ appendLine' = [appendLine EXCEPT ![p[1]] = Append(@, p)]
           \/ MovesFor(p, "failed", 0) /\ UNCHANGED appendLine
    BY <1>2, MovesIsMovesFor DEF ReadBody, KeepDirs
  <2>2. crossed' \in BOOLEAN
    BY <2>1, HandlerFacts
  <2>3. ASSUME NEW pc \in {"turn", "failed"}, MovesFor(p, pc, 0), AppendMoves(p, pc)
        PROVE  ImportTidy'
    <3>1. StartMoves(p, pc) /\ pc \in PostPcs
      BY <2>1 DEF StartMoves, Starting, PostPcs
    <3> QED
      BY <2>1, <2>2, <2>3, <3>1, HandledInPlace
  <2>4. appendLine' = [appendLine EXCEPT ![p[1]] = Append(@, p)] => AppendMoves(p, "turn")
    BY <2>1 DEF AppendMoves, Appending
  <2>5. UNCHANGED appendLine => AppendMoves(p, "failed")
    BY <2>1 DEF AppendMoves, Appending
  <2> QED
    BY <2>1, <2>3, <2>4, <2>5
<1>3. CASE WriteThrows(p) \/ Dropped(p)
  <2>1. /\ chunkPost[p].pc \in {"write", "dropExpired", "dropShort"} /\ KeepDirs
        /\ NextInLine(p[1]) /\ MovesFor(p, "failed", 0)
        /\ UNCHANGED <<startLine, client, cancel>> /\ (active' = active \/ active' = NoSession)
    BY <1>3, MovesIsMovesFor DEF WriteThrows, Dropped, KeepDirs
  <2>2. Head(appendLine[p[1]]) = p /\ crossed' \in BOOLEAN
    BY <1>3, <2>1, HandlerFacts DEF WriteThrows, Dropped, Crosses
  <2>3. StartMoves(p, "failed") /\ AppendMoves(p, "failed") /\ "failed" \in PostPcs
    BY <2>1, <2>2 DEF StartMoves, Starting, AppendMoves, Appending, PostPcs
  <2> QED
    BY <2>1, <2>2, <2>3, HandledInPlace
<1> QED
  BY <1>1, <1>2, <1>3

LEMMA TakeTurnTidy == ASSUME ImportTidy, NEW p \in Posts, TakeTurn(p) PROVE ImportTidy'
<1>1. /\ chunkPost[p].pc = "turn" /\ Head(appendLine[p[1]]) = p
      /\ UNCHANGED <<active, startLine, client, cancel, crossed>>
  BY DEF TakeTurn
<1>2. crossed' \in BOOLEAN
  BY <1>1, HandlerFacts
<1>3. ASSUME NEW pc \in {"dropExpired", "write", "failed"}
      PROVE  StartMoves(p, pc) /\ pc \in PostPcs
  BY <1>1 DEF StartMoves, Starting, PostPcs
<1>4. UNCHANGED appendLine => AppendMoves(p, "dropExpired") /\ AppendMoves(p, "write")
  BY <1>1 DEF AppendMoves, Appending
<1>5. NextInLine(p[1]) => AppendMoves(p, "failed")
  BY <1>1 DEF AppendMoves, Appending
<1>6. CASE /\ Holds(p[1]) /\ MovesFor(p, "dropExpired", active.dir) /\ RemoveDir
           /\ UNCHANGED appendLine
  <2>1. active # NoSession /\ active.dir \in gone' /\ active.dir # 0
    BY <1>6, HandlerFacts DEF RemoveDir, Dirs, Holds
  <2> QED
    BY <1>1, <1>2, <1>3, <1>4, <1>6, <2>1, HandledInPlace
<1>7. CASE /\ KeepDirs /\ Holds(p[1])
           /\ MovesFor(p, "write", active.dir) /\ UNCHANGED appendLine
  <2>1. active.dir \in Dirs /\ active.dir # 0
    BY <1>7, HandlerFacts DEF Dirs, Holds
  <2> QED
    BY <1>1, <1>2, <1>3, <1>4, <1>7, <2>1, HandledInPlace
<1>8. CASE KeepDirs /\ Moves(p, "failed") /\ NextInLine(p[1])
  BY <1>1, <1>2, <1>3, <1>5, <1>8, MovesIsMovesFor, HandledInPlace
<1> QED
  BY <1>6, <1>7, <1>8 DEF TakeTurn

LEMMA RestoreTidy ==
  ASSUME ImportTidy, NEW p \in Posts, EndRestore(p) \/ Cleared(p)  PROVE ImportTidy'
<1>1. /\ chunkPost[p].pc \in {"restore", "clear"}
      /\ UNCHANGED <<startLine, appendLine, client, cancel>>
      /\ active' = active \/ active' = NoSession
  BY DEF EndRestore, Cleared
<1>2. crossed' \in BOOLEAN
  BY HandlerFacts DEF EndRestore, Cleared, Crosses
<1>3. ASSUME NEW pc \in {"clear", "restored", "failed"}
      PROVE  StartMoves(p, pc) /\ AppendMoves(p, pc) /\ pc \in PostPcs
  BY <1>1 DEF StartMoves, Starting, AppendMoves, Appending, PostPcs
<1>4. ASSUME KeepDirs, NEW outcome \in {"restored", "failed"}, Moves(p, outcome)
      PROVE  ImportTidy'
  BY <1>1, <1>2, <1>3, <1>4, MovesIsMovesFor, HandledInPlace
<1>5. CASE Holds(p[1]) /\ RemoveDir /\ MovesFor(p, "clear", active.dir)
  <2>1. active # NoSession /\ active.dir \in gone' /\ active.dir # 0
    BY <1>5, HandlerFacts DEF RemoveDir, Dirs, Holds
  <2> QED
    BY <1>1, <1>2, <1>3, <1>5, <2>1, HandledInPlace
<1> QED
  BY <1>4, <1>5 DEF EndRestore, Cleared, KeepDirs

\* The file with the chunk written: one chunk more, in the one directory that is not gone.
LEMMA Written ==
  ASSUME ImportTidy, NEW p \in Posts, chunkPost[p].pc = "write"
  PROVE  LET d == chunkPost[p].dir IN
         /\ FilesWith(p) \in Seq(Seq(Chunks)) /\ Len(FilesWith(p)) = Len(files)
         /\ \A e \in Dirs \ {d} : FilesWith(p)[e] = files[e]
         /\ d \in gone => FilesWith(p) = files
         /\ d \notin gone =>
              FilesWith(p)[d] = IF chunkPost[p].chunk = 1 THEN <<1>>
                                ELSE Append(files[d], chunkPost[p].chunk)
<1> DEFINE d == chunkPost[p].dir
           chunk == chunkPost[p].chunk
           file == IF chunk = 1 THEN <<1>> ELSE Append(files[d], chunk)
<1>1. d \in 1..Len(files) /\ chunk \in Chunks
  BY DEF ImportTidy, PostSound, Dirs
<1>2. files \in Seq(Seq(Chunks)) /\ Len(files) \in Nat
  BY PostTypes DEF ImportTidy, ImportTypeOK
<1>3. FilesWith(p) = IF d \in gone THEN files ELSE [files EXCEPT ![d] = file]
  BY DEF FilesWith
<1> HIDE DEF d, chunk
<1>4. file \in Seq(Chunks)
  <2>1. files[d] \in Seq(Chunks)
    BY <1>1, <1>2
  <2>2. 1 \in Chunks
    BY ImportAssumption DEF Chunks
  <2>3. <<1>> \in Seq(Chunks) /\ Append(files[d], chunk) \in Seq(Chunks)
    BY <1>1, <2>1, <2>2
  <2> QED
    BY <2>3
<1> HIDE DEF file
<1>5. /\ [files EXCEPT ![d] = file] \in Seq(Seq(Chunks))
      /\ Len([files EXCEPT ![d] = file]) = Len(files)
      /\ [files EXCEPT ![d] = file][d] = file
      /\ \A e \in 1..Len(files) : e # d => [files EXCEPT ![d] = file][e] = files[e]
  BY <1>1, <1>2, <1>4
<1>6. /\ FilesWith(p) \in Seq(Seq(Chunks)) /\ Len(FilesWith(p)) = Len(files)
      /\ \A e \in Dirs \ {d} : FilesWith(p)[e] = files[e]
      /\ d \in gone => FilesWith(p) = files
      /\ d \notin gone => FilesWith(p)[d] = file
  BY <1>2, <1>3, <1>5 DEF Dirs
<1> QED
  BY <1>6 DEF d, chunk, file

LEMMA WroteTidy == ASSUME ImportTidy, NEW p \in Posts, Wrote(p) PROVE ImportTidy'
<1> DEFINE size == Size(chunkPost[p].chunk)
           s == [active EXCEPT !.received = @ + 1, !.bytes = @ + size, !.expired = FALSE]
<1>1. chunkPost[p].pc = "write" /\ UNCHANGED <<startLine, client, cancel>>
  BY DEF Wrote
<1>2. Head(appendLine[p[1]]) = p /\ crossed' \in BOOLEAN
  BY <1>1, HandlerFacts DEF Wrote, Crosses
<1>3. ASSUME NEW pc \in {"failed", "dropShort", "restore", "ok"}
      PROVE  StartMoves(p, pc) /\ pc \in PostPcs
  BY <1>1 DEF StartMoves, Starting, PostPcs
<1>4. ASSUME NEW pc \in {"failed", "restore", "ok"}, NextInLine(p[1])
      PROVE  AppendMoves(p, pc)
  BY <1>1, <1>2, <1>4 DEF AppendMoves, Appending
<1>5. UNCHANGED appendLine => AppendMoves(p, "dropShort")
  BY <1>1, <1>2 DEF AppendMoves, Appending
<1>6. /\ ImportTypeOK /\ Len(files) \in Nat /\ gone \subseteq 1..Len(files)
      /\ FilesWith(p) \in Seq(Seq(Chunks)) /\ Len(FilesWith(p)) = Len(files)
  BY <1>1, PostTypes, Written DEF ImportTidy, ImportTypeOK, Dirs
<1>7. active # NoSession => /\ s \in Session /\ s.dir \in 1..Len(files) /\ s.dir = active.dir
                            /\ [s EXCEPT !.importing = TRUE] \in Session
  <2> SUFFICES ASSUME active # NoSession
               PROVE  /\ s \in Session /\ s.dir \in 1..Len(files) /\ s.dir = active.dir
                      /\ [s EXCEPT !.importing = TRUE] \in Session
    OBVIOUS
  <2>1. size \in Nat
    BY DEF Size
  <2> HIDE DEF size
  <2>2. active \in Session
    BY <1>6 DEF ImportTypeOK
  <2>5. ASSUME NEW t, t = [active EXCEPT !.received = @ + 1, !.bytes = @ + size,
                                         !.expired = FALSE]
        PROVE  t \in Session /\ t.dir = active.dir
    <3>1. active \in [upload : Uploads, dir : Dirs, received : Nat, bytes : Nat,
                      importing : BOOLEAN, expired : BOOLEAN]
      BY <2>2 DEF Session
    <3> DEFINE received == active.received + 1
               bytes == active.bytes + size
    <3>4. received \in Nat /\ bytes \in Nat
      BY <2>1, <3>1
    <3>5. t = [active EXCEPT !.received = received, !.bytes = bytes, !.expired = FALSE]
      BY <2>5
    <3> HIDE DEF received, bytes
    <3>2. t \in [upload : Uploads, dir : Dirs, received : Nat, bytes : Nat,
                 importing : BOOLEAN, expired : BOOLEAN]
      BY <3>1, <3>4, <3>5
    <3>3. t.dir = active.dir
      BY <2>5, <3>1
    <3> QED
      BY <3>2, <3>3 DEF Session
  <2>3. s \in Session /\ s.dir = active.dir
    BY <2>5
  <2> HIDE DEF s
  <2>4. [s EXCEPT !.importing = TRUE] \in Session
    BY <2>3 DEF Session
  <2> QED
    BY <2>3, <2>4 DEF Session, Dirs
<1> HIDE DEF s
<1>8. ASSUME NEW pc \in {"failed", "dropShort", "restore", "ok"}, NEW d, MovesFor(p, pc, d),
             d \in 0..Len(files), files' \in Seq(Seq(Chunks)), Len(files') = Len(files),
             gone \subseteq gone', gone' \subseteq 1..Len(files),
             active' \in Session \cup {NoSession}, active = NoSession => active' = NoSession,
             pc = "dropShort" => d \in gone', pc = "restore" => d # 0,
             AppendMoves(p, pc)
      PROVE  ImportTidy'
  <2>1. active' \in Session' \cup {NoSession}
    BY <1>8 DEF Session, Dirs
  <2>2. /\ pc \in {"evict", "dropExpired", "dropShort", "clear"} => d \in gone'
        /\ pc \in {"write", "restore"} => d # 0
        /\ pc # "mkdir" /\ pc \notin {"never", "off"}
    BY <1>8
  <2>3. /\ Len(files) <= Len(files') /\ d \in 0..Len(files') /\ gone' \subseteq 1..Len(files')
        /\ StartMoves(p, pc) /\ pc \in PostPcs
        /\ chunkPost[p].pc \notin {"never", "off", "ok", "failed", "restored"}
    BY <1>1, <1>3, <1>6, <1>8
  <2> QED
    BY <1>1, <1>2, <1>8, <2>1, <2>2, <2>3, Handled
<1>9. CASE /\ active = NoSession
           /\ Moves(p, "failed") /\ NextInLine(p[1])
           /\ files' = FilesWith(p) /\ UNCHANGED <<active, gone>>
  <2>1. /\ MovesFor(p, "failed", 0) /\ AppendMoves(p, "failed") /\ 0 \in 0..Len(files)
        /\ gone \subseteq gone' /\ gone' \subseteq 1..Len(files) /\ active' = NoSession
        /\ files' \in Seq(Seq(Chunks)) /\ Len(files') = Len(files)
    BY <1>4, <1>6, <1>9, MovesIsMovesFor
  <2> QED
    BY <1>8, <2>1
<1>10. CASE /\ active # NoSession /\ active' = s
            /\ gone' = gone \cup {s.dir}
            /\ files' = [FilesWith(p) EXCEPT ![s.dir] = <<>>]
            /\ MovesFor(p, "dropShort", s.dir)
            /\ UNCHANGED appendLine
  <2>1. <<>> \in Seq(Chunks)
    OBVIOUS
  <2>2. files' \in Seq(Seq(Chunks)) /\ Len(files') = Len(files)
    BY <1>6, <1>7, <1>10, <2>1
  <2>3. s.dir \in gone' /\ gone \subseteq gone' /\ gone' \subseteq 1..Len(files)
    BY <1>6, <1>7, <1>10
  <2> QED
    BY <1>5, <1>7, <1>8, <1>10, <2>2, <2>3
<1>11. CASE /\ active # NoSession /\ active' = [s EXCEPT !.importing = TRUE]
            /\ MovesFor(p, "restore", s.dir) /\ NextInLine(p[1])
            /\ files' = FilesWith(p) /\ UNCHANGED gone
  <2>1. /\ AppendMoves(p, "restore") /\ s.dir \in 0..Len(files) /\ s.dir # 0
        /\ gone \subseteq gone' /\ gone' \subseteq 1..Len(files) /\ active' \in Session
        /\ files' \in Seq(Seq(Chunks)) /\ Len(files') = Len(files)
    BY <1>4, <1>6, <1>7, <1>11
  <2> QED
    BY <1>8, <1>11, <2>1
<1>12. CASE /\ active # NoSession /\ active' = s
            /\ Moves(p, "failed") \/ Moves(p, "ok")
            /\ NextInLine(p[1]) /\ files' = FilesWith(p) /\ UNCHANGED gone
  <2>1. /\ 0 \in 0..Len(files) /\ active' \in Session
        /\ gone \subseteq gone' /\ gone' \subseteq 1..Len(files)
        /\ files' \in Seq(Seq(Chunks)) /\ Len(files') = Len(files)
    BY <1>6, <1>7, <1>12
  <2>2. ASSUME NEW pc \in {"failed", "ok"}, Moves(p, pc)  PROVE ImportTidy'
    <3>1. MovesFor(p, pc, 0) /\ AppendMoves(p, pc)
      BY <1>4, <1>12, <2>2, MovesIsMovesFor
    <3> QED
      BY <1>8, <1>12, <2>1, <3>1
  <2> QED
    BY <1>12, <2>2
<1> QED
  BY <1>9, <1>10, <1>11, <1>12 DEF Wrote, s, size

-----------------------------------------------------------------------------
(* The client, the clock and the restart *)

LEMMA ArrivesTidy ==
  ASSUME ImportTidy, NEW p \in Posts, NEW chunk \in Chunks, Arrives(p, chunk),
         chunkPost[p].pc \in {"off", "ok", "failed"},
         UNCHANGED <<active, appendLine, files, gone, cancel, crossed>>,
         client' \in [Uploads -> [pc : {"off", "next", "wait", "quit", "done"},
                                  sent : Chunks \cup {0}]],
         Clients'
  PROVE  ImportTidy'
<1> DEFINE pc == IF chunk = 1 THEN "start" ELSE "body"
<1>1. chunkPost \in [Posts -> PostRecord(Len(files))] /\ Len(files) \in Nat /\ ImportTypeOK
  BY PostTypes DEF ImportTidy
<1>2. /\ chunkPost' = [chunkPost EXCEPT ![p] = [pc |-> pc, chunk |-> chunk, dir |-> 0]]
      /\ startLine' = IF chunk = 1 THEN Append(startLine, p) ELSE startLine
  BY DEF Arrives
<1>3. pc \in {"start", "body"} /\ (pc = "start" <=> chunk = 1)
  OBVIOUS
<1> HIDE DEF pc
<1>4. /\ chunkPost' \in [Posts -> PostRecord(Len(files))]
      /\ chunkPost'[p].pc = pc /\ chunkPost'[p].chunk = chunk
      /\ \A q \in Posts \ {p} : chunkPost'[q] = chunkPost[q]
  <2>1. [pc |-> pc, chunk |-> chunk, dir |-> 0] \in PostRecord(Len(files))
    BY <1>1, <1>3 DEF PostRecord, PostPcs
  <2> QED
    BY <1>1, <1>2, <2>1
<1>5. startLine' \in Seq(Posts) /\ StartOrder'
  <2>1. startLine \in Seq(Posts) /\ StartOrder
    BY DEF ImportTidy, ImportTypeOK
  <2>2. CASE chunk = 1
    BY <1>1, <1>2, <1>3, <1>4, <2>1, <2>2, StartJoined DEF Starting
  <2>3. CASE chunk # 1
    BY <1>2, <1>3, <1>4, <2>1, <2>3, StartKept DEF Starting
  <2> QED
    BY <2>2, <2>3
<1>6. AppendOrder'
  <2>1. chunkPost'[p].pc \notin Appending /\ chunkPost[p].pc \notin Appending
    BY <1>3, <1>4 DEF Appending
  <2> QED
    BY <1>4, <2>1, AppendKept DEF ImportTidy
<1>7. ASSUME NEW q \in Posts  PROVE PostSound(q)'
  <2>1. CASE q = p
    BY <1>3, <1>4, <2>1 DEF PostSound
  <2>2. CASE q # p
    BY <1>4, <2>2 DEF ImportTidy, PostSound, Dirs
  <2> QED
    BY <2>1, <2>2
<1>8. ImportTypeOK' /\ CancelSound'
  <2>1. chunkPost' \in [Posts -> [pc : PostPcs, chunk : Chunks \cup {0}, dir : 0..Len(files')]]
    BY <1>4 DEF PostRecord
  <2>2. active' \in Session' \cup {NoSession} /\ CancelSound'
    BY DEF ImportTidy, ImportTypeOK, Session, Dirs, CancelSound
  <2> QED
    BY <1>1, <1>5, <2>1, <2>2 DEF ImportTypeOK, PostPcs, OnDisk, Dirs
<1> QED
  BY <1>5, <1>6, <1>7, <1>8 DEF ImportTidy

\* A step of a client, or of the clock, that moves no handler.
LEMMA Unhandled ==
  ASSUME ImportTidy, UNCHANGED <<startLine, appendLine, chunkPost>>,
         files' \in Seq(Seq(Chunks)), Len(files') = Len(files),
         gone \subseteq gone', gone' \subseteq Dirs,
         active' \in Session \cup {NoSession}, active = NoSession => active' = NoSession,
         client' \in [Uploads -> [pc : {"off", "next", "wait", "quit", "done"},
                                  sent : Chunks \cup {0}]],
         cancel' \in [Uploads -> [pc : {"no", "sent", "clear", "done"}, dir : 0..Len(files)]],
         crossed' \in BOOLEAN, CancelSound', Clients'
  PROVE  ImportTidy'
<1>1. ImportTypeOK'
  BY DEF ImportTidy, ImportTypeOK, Session, Dirs
<1>2. StartOrder' /\ AppendOrder'
  BY DEF ImportTidy, StartOrder, AppendOrder
<1>3. \A p \in Posts : PostSound(p)'
  BY DEF ImportTidy, PostSound, Dirs
<1> QED
  BY <1>1, <1>2, <1>3 DEF ImportTidy

LEMMA ClientTypes ==
  ASSUME ImportTidy
  PROVE  /\ client \in [Uploads -> [pc : {"off", "next", "wait", "quit", "done"},
                                    sent : Chunks \cup {0}]]
         /\ cancel \in [Uploads -> [pc : {"no", "sent", "clear", "done"}, dir : 0..Len(files)]]
         /\ active \in Session \cup {NoSession} /\ crossed \in BOOLEAN
         /\ files \in Seq(Seq(Chunks)) /\ gone \subseteq Dirs
         /\ ImportTypeOK /\ Clients /\ CancelSound
BY DEF ImportTidy, ImportTypeOK

\* A client that the step leaves alone.
LEMMA ClientKept ==
  ASSUME ImportTidy, NEW u \in Uploads, client'[u] = client[u], cancel'[u] = cancel[u],
         chunkPost'[<<u, 1>>] = chunkPost[<<u, 1>>]
  PROVE  ClientSound(u)'
<1>1. ClientSound(u)
  BY DEF ImportTidy, Clients
<1> DEFINE p == <<u, 1>>
<1> HIDE DEF p
<1>2. chunkPost'[p] = chunkPost[p]
  BY DEF p
<1> QED
  BY <1>1, <1>2 DEF ClientSound, p

LEMMA SendTidy == ASSUME ImportTidy, NEW u \in Uploads, SendChunk(u) PROVE ImportTidy'
<1> DEFINE n == client[u].sent + 1
<1>1. /\ client[u].pc = "next" /\ client' = [client EXCEPT ![u] = [pc |-> "wait", sent |-> n]]
      /\ Arrives(<<u, 1>>, n)
      /\ UNCHANGED <<active, appendLine, files, gone, cancel, crossed>>
  BY DEF SendChunk
<1>2. <<u, 1>> \in Posts /\ chunkPost[<<u, 1>>].pc \in {"off", "ok", "failed"} /\ n \in Chunks
  <2>1. ClientSound(u) /\ client[u].sent \in Chunks \cup {0}
    BY ClientTypes DEF Clients
  <2>2. client[u].sent < NChunks /\ chunkPost[<<u, 1>>].pc \in {"off", "ok", "failed"}
    BY <1>1, <2>1 DEF ClientSound
  <2> QED
    BY <2>1, <2>2, ImportAssumption DEF Posts, Chunks
<1> HIDE DEF n
<1>3. client' \in [Uploads -> [pc : {"off", "next", "wait", "quit", "done"},
                               sent : Chunks \cup {0}]]
  BY <1>1, <1>2, ClientTypes
<1>4. /\ client'[u].pc = "wait" /\ client[u].pc # "quit"
      /\ \A v \in Uploads \ {u} : client'[v] = client[v]
  BY <1>1, ClientTypes
<1>5. \A q \in Posts \ {<<u, 1>>} : chunkPost'[q] = chunkPost[q]
  BY <1>1, <1>2, PostTypes DEF Arrives, ImportTidy
<1>6. ASSUME NEW v \in Uploads \ {u}  PROVE ClientSound(v)'
  <2>1. <<v, 1>> \in Posts \ {<<u, 1>>}
    BY DEF Posts
  <2>2. client'[v] = client[v] /\ cancel'[v] = cancel[v]
    BY <1>1, <1>4
  <2> QED
    BY <1>5, <2>1, <2>2, ClientKept
<1>8. ClientSound(u)'
  <2>1. ClientSound(u)
    BY ClientTypes DEF Clients
  <2> QED
    BY <1>1, <1>4, <2>1 DEF ClientSound
<1>7. Clients'
  BY <1>6, <1>8 DEF Clients
<1> QED
  BY <1>1, <1>2, <1>3, <1>7, ArrivesTidy

LEMMA DuplicateTidy == ASSUME ImportTidy, NEW u \in Uploads, Duplicate(u) PROVE ImportTidy'
<1>1. /\ chunkPost[<<u, 2>>].pc = "off" /\ <<u, 2>> \in Posts
      /\ UNCHANGED <<active, appendLine, files, gone, client, cancel, crossed>>
  BY DEF Duplicate, Posts
<1>2. PICK chunk \in 1..client[u].sent : Arrives(<<u, 2>>, chunk)
  BY DEF Duplicate
<1>3. chunk \in Chunks
  <2>1. client[u].sent \in Chunks \cup {0}
    BY ClientTypes
  <2> QED
    BY <2>1, ImportAssumption DEF Chunks
<1>4. \A q \in Posts \ {<<u, 2>>} : chunkPost'[q] = chunkPost[q]
  BY <1>2, <1>1, PostTypes DEF Arrives, ImportTidy
<1>5. ASSUME NEW v \in Uploads  PROVE ClientSound(v)'
  <2>1. <<v, 1>> \in Posts \ {<<u, 2>>}
    BY DEF Posts
  <2> QED
    BY <1>1, <1>4, <2>1, ClientKept
<1>6. Clients'
  BY <1>5 DEF Clients
<1> QED
  BY <1>1, <1>2, <1>3, <1>6, ClientTypes, ArrivesTidy

LEMMA HearsTidy == ASSUME ImportTidy, NEW u \in Uploads, HearOk(u) \/ Quit(u) PROVE ImportTidy'
<1>1. /\ UNCHANGED <<active, startLine, appendLine, chunkPost, files, gone, crossed>>
      /\ client[u].pc = "wait"
  BY DEF HearOk, Quit
<1>2. ASSUME NEW pc \in {"next", "done", "quit"}, client' = [client EXCEPT ![u].pc = pc]
      PROVE  /\ client' \in [Uploads -> [pc : {"off", "next", "wait", "quit", "done"},
                                         sent : Chunks \cup {0}]]
             /\ client'[u].pc = pc /\ client'[u].sent = client[u].sent
             /\ \A v \in Uploads \ {u} : client'[v] = client[v]
  BY <1>2, ClientTypes
<1>5. ASSUME NEW v \in Uploads \ {u}, client'[v] = client[v], cancel'[v] = cancel[v]
      PROVE  ClientSound(v)'
  BY <1>1, <1>5, ClientKept
<1>6. ClientSound(u)
  BY ClientTypes DEF Clients
<1>3. CASE HearOk(u)
  <2>1. cancel' = cancel /\ cancel[u].pc = "no"
    BY <1>1, <1>3, <1>6 DEF HearOk, ClientSound
  <2>2. CASE /\ chunkPost[<<u, 1>>].pc = "ok" /\ client[u].sent < NChunks
             /\ client' = [client EXCEPT ![u].pc = "next"]
    <3>2. ClientSound(u)'
      BY <1>1, <1>2, <2>1, <2>2 DEF ClientSound
    <3>1. Clients'
      BY <1>2, <1>5, <2>1, <2>2, <3>2 DEF Clients
    <3> QED
      BY <1>1, <1>2, <2>1, <2>2, <3>1, ClientTypes, Unhandled DEF CancelSound
  <2>3. CASE client' = [client EXCEPT ![u].pc = "done"]
    <3>2. ClientSound(u)'
      BY <1>1, <1>2, <2>1, <2>3 DEF ClientSound
    <3>1. Clients'
      BY <1>2, <1>5, <2>1, <2>3, <3>2 DEF Clients
    <3> QED
      BY <1>1, <1>2, <2>1, <2>3, <3>1, ClientTypes, Unhandled DEF CancelSound
  <2> QED
    BY <1>3, <2>2, <2>3 DEF HearOk
<1>4. CASE Quit(u)
  <2>1. client' = [client EXCEPT ![u].pc = "quit"]
    BY <1>4 DEF Quit
  <2>2. PICK fate \in {"sent", "done"} : cancel' = [cancel EXCEPT ![u].pc = fate]
    BY <1>4 DEF Quit
  <2>3. /\ cancel' \in [Uploads -> [pc : {"no", "sent", "clear", "done"}, dir : 0..Len(files)]]
        /\ cancel'[u].pc = fate /\ cancel'[u].dir = cancel[u].dir
        /\ \A v \in Uploads \ {u} : cancel'[v] = cancel[v]
    BY <2>2, ClientTypes
  <2>5. ClientSound(u)'
    BY <1>2, <2>1 DEF ClientSound
  <2>6. Clients'
    BY <1>2, <1>5, <2>1, <2>3, <2>5 DEF Clients
  <2>8. cancel[u].dir = 0
    BY <1>1, <1>6, ClientTypes DEF ClientSound, CancelSound
  <2>7. CancelSound'
    BY <1>1, <2>3, <2>8, ClientTypes DEF CancelSound
  <2>4. Clients' /\ CancelSound'
    BY <2>6, <2>7
  <2> QED
    BY <1>1, <1>2, <2>1, <2>3, <2>4, ClientTypes, Unhandled
<1> QED
  BY <1>3, <1>4

LEMMA CancelTidy ==
  ASSUME ImportTidy, NEW u \in Uploads, Cancel(u) \/ Cancelled(u)  PROVE ImportTidy'
<1>1. /\ UNCHANGED <<startLine, appendLine, chunkPost, client>>
      /\ cancel[u].pc \in {"sent", "clear"} /\ client[u].pc = "quit"
  <2>1. ClientSound(u) /\ cancel[u].pc \in {"sent", "clear"}
    BY ClientTypes DEF Cancel, Cancelled, Clients
  <2> QED
    BY <2>1 DEF Cancel, Cancelled, ClientSound
<1>2. crossed' \in BOOLEAN /\ (active' = active \/ active' = NoSession)
  BY ClientTypes DEF Cancel, Cancelled, Crosses
<1>3. /\ files' \in Seq(Seq(Chunks)) /\ Len(files') = Len(files)
      /\ gone \subseteq gone' /\ gone' \subseteq Dirs
  <2>1. CASE KeepDirs
    BY <2>1, ClientTypes DEF KeepDirs
  <2>2. CASE active # NoSession /\ RemoveDir
    BY <2>2, ClientTypes, DirRemoved DEF Dirs
  <2> QED
    BY <2>1, <2>2 DEF Cancel, Cancelled, KeepDirs, Holds
<1>4. ASSUME NEW pc \in {"clear", "done"}, NEW d \in 0..Len(files),
             cancel' = [cancel EXCEPT ![u] = [pc |-> pc, dir |-> d]],
             IF pc = "clear" THEN d \in gone' ELSE d = 0
      PROVE  ImportTidy'
  <2>1. /\ cancel' \in [Uploads -> [pc : {"no", "sent", "clear", "done"}, dir : 0..Len(files)]]
        /\ cancel'[u].pc = pc /\ cancel'[u].dir = d
        /\ \A v \in Uploads \ {u} : cancel'[v] = cancel[v]
    BY <1>4, ClientTypes
  <2>2. ClientSound(u)'
    BY <1>1 DEF ClientSound
  <2>3. \A v \in Uploads \ {u} : ClientSound(v)'
    BY <1>1, <2>1, ClientKept
  <2>4. Clients'
    BY <2>2, <2>3 DEF Clients
  <2>5. CancelSound'
    BY <1>3, <1>4, <2>1, ClientTypes DEF CancelSound
  <2> QED
    BY <1>1, <1>2, <1>3, <2>1, <2>4, <2>5, ClientTypes, Unhandled
<1>5. Len(files) \in Nat
  BY PostTypes, ClientTypes
<1>6. CASE cancel' = [cancel EXCEPT ![u] = [pc |-> "done", dir |-> 0]]
  <2>1. 0 \in 0..Len(files) /\ "done" # "clear"
    BY <1>5
  <2> QED
    BY <1>4, <1>6, <2>1
<1>7. CASE /\ active # NoSession /\ RemoveDir
           /\ cancel' = [cancel EXCEPT ![u] = [pc |-> "clear", dir |-> active.dir]]
  <2>1. active.dir \in 0..Len(files) /\ active.dir \in gone'
    BY <1>5, <1>7, ClientTypes DEF RemoveDir, Dirs, Session
  <2> QED
    BY <1>4, <1>7, <2>1
<1> QED
  BY <1>6, <1>7 DEF Cancel, Cancelled, Holds

LEMMA ExpireTidy == ASSUME ImportTidy, ExpireSession PROVE ImportTidy'
<1>1. /\ active # NoSession /\ active' = [active EXCEPT !.expired = TRUE]
      /\ UNCHANGED <<startLine, appendLine, chunkPost, files, gone, client, cancel, crossed>>
  BY DEF ExpireSession
<1>2. active' \in Session
  BY <1>1, ClientTypes DEF Session
<1>3. Clients'
  BY <1>1, ClientKept DEF Clients
<1>4. CancelSound'
  BY <1>1, ClientTypes DEF CancelSound
<1> QED
  BY <1>1, <1>2, <1>3, <1>4, ClientTypes, Unhandled

LEMMA LoseTidy == ASSUME ImportTidy, LoseImport PROVE ImportTidy'
<1>1. /\ active' = NoSession /\ startLine' = <<>> /\ files' = <<>> /\ gone' = {}
      /\ crossed' = FALSE /\ client' = client
  BY DEF LoseImport
<1>2. appendLine' = [u \in Uploads |-> <<>>]
  BY DEF LoseImport
<1>3. chunkPost' = [p \in Posts |-> IF chunkPost[p].pc \in {"never", "off"} THEN chunkPost[p]
                                    ELSE [pc |-> "failed", chunk |-> chunkPost[p].chunk, dir |-> 0]]
  BY DEF LoseImport
<1>4. cancel' = [u \in Uploads |-> IF cancel[u].pc = "clear" THEN [pc |-> "done", dir |-> 0]
                                   ELSE cancel[u]]
  BY DEF LoseImport
<1>5. ASSUME NEW p \in Posts
      PROVE  /\ chunkPost'[p] \in PostRecord(0)
             /\ chunkPost'[p].pc \in {"never", "off", "failed"}
             /\ chunkPost[p].pc \in {"off", "failed", "ok"} => chunkPost'[p].pc \in {"off", "failed"}
             /\ IF chunkPost'[p].pc \in {"never", "off"} THEN chunkPost'[p].dir = 0
                ELSE chunkPost'[p].chunk \in Chunks
  <2>1. chunkPost[p] \in PostRecord(Len(files)) /\ PostSound(p)
    BY PostTypes DEF ImportTidy
  <2>2. CASE chunkPost[p].pc \in {"never", "off"}
    <3>1. chunkPost'[p] = chunkPost[p]
      BY <1>3, <2>2
    <3>2. chunkPost[p].dir = 0
      BY <2>1, <2>2 DEF PostSound
    <3> QED
      BY <2>1, <2>2, <3>1, <3>2 DEF PostRecord
  <2>3. CASE chunkPost[p].pc \notin {"never", "off"}
    <3>1. chunkPost'[p] = [pc |-> "failed", chunk |-> chunkPost[p].chunk, dir |-> 0]
      BY <1>3, <2>3
    <3>2. chunkPost[p].chunk \in Chunks
      BY <2>1, <2>3 DEF PostSound
    <3> QED
      BY <3>1, <3>2 DEF PostRecord, PostPcs
  <2> QED
    BY <2>2, <2>3
<1>6. Len(files') = 0 /\ Elements(<<>>) = {} /\ Distinct(<<>>)
  BY <1>1 DEF Elements, Distinct
<1>7. StartOrder'
  BY <1>1, <1>5, <1>6 DEF StartOrder, Starting
<1>8. AppendOrder'
  <2>1. ASSUME NEW u \in Uploads  PROVE appendLine'[u] = <<>>
    BY <1>2
  <2>2. \A p \in Posts : chunkPost'[p].pc \notin Appending
    BY <1>5 DEF Appending
  <2> QED
    BY <1>6, <2>1, <2>2 DEF AppendOrder
<1>9. \A p \in Posts : PostSound(p)'
  BY <1>5 DEF PostSound
<1>10. ASSUME NEW u \in Uploads
       PROVE  /\ cancel'[u] \in [pc : {"no", "sent", "clear", "done"}, dir : 0..0]
              /\ cancel'[u].pc # "clear" /\ cancel'[u].dir = 0
              /\ cancel'[u].pc # "no" => cancel[u].pc # "no"
  <2>1. /\ cancel[u] \in [pc : {"no", "sent", "clear", "done"}, dir : 0..Len(files)]
        /\ cancel[u].pc # "clear" => cancel[u].dir = 0
    BY ClientTypes DEF CancelSound
  <2>2. CASE cancel[u].pc = "clear"
    BY <1>4, <2>2
  <2>3. CASE cancel[u].pc # "clear"
    BY <1>4, <2>1, <2>3
  <2> QED
    BY <2>2, <2>3
<1>11. CancelSound'
  BY <1>10 DEF CancelSound
<1>12. ASSUME NEW u \in Uploads  PROVE ClientSound(u)'
  <2>1. ClientSound(u)
    BY ClientTypes DEF Clients
  <2> DEFINE p == <<u, 1>>
  <2>2. p \in Posts
    BY DEF Posts
  <2> HIDE DEF p
  <2>3. chunkPost[p].pc \in {"off", "failed", "ok"} => chunkPost'[p].pc \in {"off", "failed"}
    BY <1>5, <2>2
  <2> QED
    BY <1>1, <1>10, <2>1, <2>3 DEF ClientSound, p
<1>13. ImportTypeOK'
  <2>1. chunkPost' \in [Posts -> [pc : PostPcs, chunk : Chunks \cup {0}, dir : 0..Len(files')]]
    BY <1>3, <1>5, <1>6 DEF PostRecord
  <2>2. cancel' \in [Uploads -> [pc : {"no", "sent", "clear", "done"}, dir : 0..Len(files')]]
    BY <1>4, <1>6, <1>10
  <2>3. /\ startLine' \in Seq(Posts) /\ appendLine' \in [Uploads -> Seq(Posts)]
        /\ files' \in Seq(Seq(Chunks)) /\ gone' \subseteq Dirs' /\ crossed' \in BOOLEAN
        /\ active' \in Session' \cup {NoSession}
    <3>1. <<>> \in Seq(Posts) /\ <<>> \in Seq(Seq(Chunks))
      OBVIOUS
    <3>2. appendLine' \in [Uploads -> Seq(Posts)]
      BY <1>2, <3>1
    <3> QED
      BY <1>1, <3>1, <3>2
  <2> QED
    BY <1>1, <2>1, <2>2, <2>3, ClientTypes DEF ImportTypeOK, PostPcs, OnDisk
<1> QED
  BY <1>7, <1>8, <1>9, <1>11, <1>12, <1>13 DEF ImportTidy, Clients

LEMMA InitTidy ==
  ASSUME NEW U, NEW L, ImportInit(U, L)
  PROVE  ImportTidy /\ crossed = FALSE /\ active = NoSession /\ files = <<>>
         /\ \A p \in Posts : chunkPost[p].pc \in {"never", "off"}
<1>1. /\ active = NoSession /\ startLine = <<>> /\ files = <<>> /\ gone = {}
      /\ appendLine = [u \in Uploads |-> <<>>] /\ crossed = FALSE
      /\ cancel = [u \in Uploads |-> [pc |-> "no", dir |-> 0]]
  BY DEF ImportInit
<1>2. ASSUME NEW p \in Posts
      PROVE  chunkPost[p].pc \in {"never", "off"} /\ chunkPost[p].dir = 0
  BY DEF ImportInit
<1>3. chunkPost \in [Posts -> [pc : PostPcs, chunk : Chunks \cup {0}, dir : 0..0]]
  BY DEF ImportInit, PostPcs
<1>4. Len(files) = 0 /\ Elements(<<>>) = {} /\ Distinct(<<>>)
  BY <1>1 DEF Elements, Distinct
<1>5. StartOrder
  BY <1>1, <1>2, <1>4 DEF StartOrder, Starting
<1>6. AppendOrder
  <2>1. ASSUME NEW u \in Uploads  PROVE appendLine[u] = <<>>
    BY <1>1
  <2>2. \A p \in Posts : chunkPost[p].pc \notin Appending
    BY <1>2 DEF Appending
  <2> QED
    BY <1>4, <2>1, <2>2 DEF AppendOrder
<1>7. \A p \in Posts : PostSound(p)
  BY <1>2 DEF PostSound
<1>8. CancelSound
  BY <1>1 DEF CancelSound
<1>9. ASSUME NEW u \in Uploads  PROVE ClientSound(u)
  <2> DEFINE p == <<u, 1>>
  <2>1. p \in Posts /\ p[2] = 1
    BY DEF Posts
  <2>2. chunkPost[p].pc = "off"
    <3> HIDE DEF p
    <3> QED
      BY <2>1 DEF ImportInit
  <2>3. client[u].sent = 0 /\ cancel[u].pc = "no"
    BY <1>1 DEF ImportInit
  <2> QED
    BY <2>2, <2>3, ImportAssumption DEF ClientSound
<1>10. ImportTypeOK
  <2>1. client \in [Uploads -> [pc : {"off", "next", "wait", "quit", "done"},
                                sent : Chunks \cup {0}]]
    BY DEF ImportInit
  <2>2. /\ startLine \in Seq(Posts) /\ appendLine \in [Uploads -> Seq(Posts)]
        /\ files \in Seq(Seq(Chunks)) /\ gone \subseteq Dirs /\ crossed \in BOOLEAN
        /\ cancel \in [Uploads -> [pc : {"no", "sent", "clear", "done"}, dir : 0..0]]
    <3>1. <<>> \in Seq(Posts) /\ <<>> \in Seq(Seq(Chunks))
      OBVIOUS
    <3>2. appendLine \in [Uploads -> Seq(Posts)]
      BY <1>1, <3>1
    <3>3. cancel \in [Uploads -> [pc : {"no", "sent", "clear", "done"}, dir : 0..0]]
      BY <1>1
    <3> QED
      BY <1>1, <3>1, <3>2, <3>3
  <2> QED
    BY <1>1, <1>3, <1>4, <2>1, <2>2 DEF ImportTypeOK, PostPcs, OnDisk
<1> QED
  BY <1>1, <1>2, <1>5, <1>6, <1>7, <1>8, <1>9, <1>10 DEF ImportTidy, Clients

LEMMA TidyStep == ASSUME ImportTidy, ImportMove PROVE ImportTidy'
<1>1. CASE UNCHANGED importVars
  BY <1>1 DEF importVars, ImportTidy, ImportTypeOK, Session, Dirs, StartOrder, AppendOrder,
              PostSound, CancelSound, Clients, ClientSound
<1>2. CASE LoseImport
  BY <1>2, LoseTidy
<1>3. ASSUME NEW u \in Uploads,
             \/ SendChunk(u) \/ Duplicate(u) \/ HearOk(u) \/ Quit(u)
             \/ Cancel(u) \/ Cancelled(u)
      PROVE  ImportTidy'
  BY <1>3, SendTidy, DuplicateTidy, HearsTidy, CancelTidy
<1>4. ASSUME NEW p \in Posts, HandlePost(p)  PROVE ImportTidy'
  BY <1>4, StartTidy, EvictedTidy, MakeDirTidy, LinesTidy, TakeTurnTidy, WroteTidy, RestoreTidy
     DEF HandlePost
<1>5. CASE ExpireSession
  BY <1>5, ExpireTidy
<1> QED
  BY <1>1, <1>2, <1>3, <1>4, <1>5 DEF ImportMove, ImportStep

-----------------------------------------------------------------------------
(* As long as nobody goes on with another's session *)

\* What a step that moves p leaves of the posts.
LEMMA PostMoved ==
  ASSUME ImportTypeOK, NEW p \in Posts, NEW pc, NEW d, MovesFor(p, pc, d)
  PROVE  /\ chunkPost'[p].pc = pc /\ chunkPost'[p].dir = d
         /\ chunkPost'[p].chunk = chunkPost[p].chunk
         /\ \A q \in Posts \ {p} : chunkPost'[q] = chunkPost[q]
<1>1. chunkPost \in [Posts -> PostRecord(Len(files))]
  BY PostTypes
<1>2. chunkPost' = [chunkPost EXCEPT ![p].pc = pc, ![p].dir = d]
  BY DEF MovesFor
<1> QED
  BY <1>1, <1>2 DEF PostRecord

\* The posts that write, or are read, were doing so before.
PostsRest == \A q \in Posts : chunkPost'[q].pc \in {"write", "restore", "dropShort"}
                                => chunkPost'[q] = chunkPost[q]

LEMMA RestingPosts ==
  ASSUME ImportTypeOK, NEW p \in Posts, NEW pc, NEW d, MovesFor(p, pc, d),
         pc \notin {"write", "restore", "dropShort"}
  PROVE  PostsRest
BY PostMoved DEF PostsRest

\* The slot is emptied of a session whose directory was removed.
LEMMA EmptiedOrderly ==
  ASSUME Orderly, active # NoSession, active.dir \in gone, active' = NoSession,
         UNCHANGED <<files, gone, client>>, PostsRest
  PROVE  Orderly'
<1>1. Dirs' = Dirs /\ Dirs \ gone = {}
  BY DEF Orderly, Dirs
<1>2. ASSUME NEW q \in Posts
      PROVE  ~Writing(q)' /\ ReaderSound(q)' /\ chunkPost'[q].pc # "dropShort"
  BY DEF Orderly, PostsRest, Writing, Reading, ReaderSound
<1>3. SlotSound'
  BY DEF SlotSound
<1> QED
  BY <1>1, <1>2, <1>3 DEF Orderly

\* The session stays, but for its directory.
LEMMA RemovedOrderly ==
  ASSUME ImportTypeOK, Orderly, active # NoSession, RemoveDir, PostsRest,
         UNCHANGED <<active, client>>,
         active.expired \/ active.importing \/ client[active.upload].pc = "quit",
         \A q \in Posts : Writing(q) => client[q[1]].pc = "quit",
         \A q \in Posts : chunkPost'[q].pc = "restore" => client[q[1]].pc = "quit"
  PROVE  Orderly'
<1>1. /\ Dirs' = Dirs /\ active.dir \in Dirs /\ gone' = gone \cup {active.dir}
  BY DirRemoved DEF Dirs
<1>2. \A d \in Dirs' \ gone' : FALSE
  BY <1>1 DEF Orderly
<1>3. SlotSound'
  BY <1>1 DEF Orderly, SlotSound
<1>4. ASSUME NEW q \in Posts
      PROVE  Writing(q)' => WriterSound(q)'
  BY <1>4 DEF Orderly, PostsRest, Writing, WriterSound
<1>5. ASSUME NEW q \in Posts
      PROVE  ReaderSound(q)' /\ chunkPost'[q].pc # "dropShort"
  BY <1>5 DEF Orderly, PostsRest, Reading, ReaderSound
<1> QED
  BY <1>2, <1>3, <1>4, <1>5 DEF Orderly

\* Nothing happens to the slot or its file, and clients that have quit have quit.
LEMMA QuietOrderly ==
  ASSUME Orderly, UNCHANGED <<active, files, gone>>, PostsRest,
         \A u \in Uploads : client[u].pc = "quit" => client'[u].pc = "quit",
         ImportTypeOK
  PROVE  Orderly'
<1>1. Dirs' = Dirs /\ (active # NoSession => active.upload \in Uploads)
  BY DEF Dirs, ImportTypeOK, Session
<1>2. SlotSound'
  BY <1>1 DEF Orderly, SlotSound
<1>3. ASSUME NEW q \in Posts  PROVE q[1] \in Uploads
  BY DEF Posts
<1>4. ASSUME NEW q \in Posts  PROVE Writing(q)' => WriterSound(q)'
  BY <1>3 DEF Orderly, PostsRest, Writing, WriterSound
<1>5. ASSUME NEW q \in Posts  PROVE ReaderSound(q)' /\ chunkPost'[q].pc # "dropShort"
  BY <1>3 DEF Orderly, PostsRest, Reading, ReaderSound
<1> QED
  BY <1>1, <1>2, <1>4, <1>5 DEF Orderly

\* No handler is at the disk when the session expires.
LEMMA ExpireOrderly == ASSUME ImportTypeOK, Orderly, ExpireSession PROVE Orderly'
<1>1. /\ active # NoSession /\ UNCHANGED <<chunkPost, files, gone, client>>
      /\ active' = [active EXCEPT !.expired = TRUE] /\ active \in Session
      /\ \A p \in Posts : chunkPost[p].pc \notin OnDisk
  BY DEF ExpireSession, ImportTypeOK
<1>2. /\ active'.upload = active.upload /\ active'.dir = active.dir
      /\ active'.received = active.received /\ active'.bytes = active.bytes
      /\ active'.importing = active.importing /\ active'.expired
  BY <1>1 DEF Session
<1>3. active' # NoSession
  <2>1. active' \in [upload : Uploads, dir : Nat, received : Nat, bytes : Nat,
                     importing : BOOLEAN, expired : BOOLEAN]
    <3>1. active \in [upload : Uploads, dir : Nat, received : Nat, bytes : Nat,
                      importing : BOOLEAN, expired : BOOLEAN]
      BY <1>1, PostTypes DEF Session, Dirs
    <3> QED
      BY <1>1, <3>1
  <2> QED
    BY <2>1, ImportAssumption
<1>4. SlotSound'
  BY <1>1, <1>2 DEF Orderly, SlotSound
<1>5. ASSUME NEW q \in Posts
      PROVE  ~Writing(q)' /\ ReaderSound(q)' /\ chunkPost'[q].pc # "dropShort"
  BY <1>1, <1>2, <1>3 DEF Orderly, Writing, Reading, ReaderSound, OnDisk
<1>6. \A d \in Dirs' \ gone' : active' # NoSession /\ active'.dir = d
  BY <1>1, <1>2, <1>3 DEF Orderly, Dirs
<1> QED
  BY <1>4, <1>5, <1>6 DEF Orderly

\* A session that is being restored has all its chunks: nobody writes to its file.
LEMMA NoWriter ==
  ASSUME ImportTidy, Orderly, active # NoSession, active.importing, NEW q \in Posts
  PROVE  ~Writing(q)
<1> SUFFICES ASSUME Writing(q)  PROVE FALSE
  OBVIOUS
<1>1. chunkPost[q].chunk = active.received + 1 /\ active.received = NChunks
  BY DEF Orderly, SlotSound, WriterSound
<1>2. chunkPost[q].chunk \in 1..NChunks
  BY DEF Writing, ImportTidy, PostSound, Chunks
<1> QED
  BY <1>1, <1>2, ImportAssumption

\* Whose import has lost the slot, its client has quit.
LEMMA LostReader ==
  ASSUME Orderly, NEW q \in Posts, chunkPost[q].pc = "restore", client[q[1]].pc # "quit"
  PROVE  /\ Reading(q) /\ active # NoSession /\ active.importing /\ active.upload = q[1]
         /\ active.dir \notin gone
BY DEF Orderly, ReaderSound, Reading

LEMMA ClientsOrderly ==
  ASSUME ImportTidy, Orderly, ~crossed', NEW u \in Uploads,
         \/ SendChunk(u) \/ Duplicate(u) \/ HearOk(u) \/ Quit(u)
         \/ Cancel(u) \/ Cancelled(u)
  PROVE  Orderly'
<1>1. ImportTypeOK /\ chunkPost \in [Posts -> PostRecord(Len(files))]
  BY PostTypes DEF ImportTidy
<1>2. ASSUME NEW p \in Posts, NEW chunk, Arrives(p, chunk)  PROVE PostsRest
  BY <1>1, <1>2 DEF Arrives, PostsRest
<1>3. ASSUME SendChunk(u)  PROVE Orderly'
  <2>1. /\ UNCHANGED <<active, files, gone>> /\ client[u].pc = "next"
        /\ Arrives(<<u, 1>>, client[u].sent + 1) /\ <<u, 1>> \in Posts
        /\ client' = [client EXCEPT ![u] = [pc |-> "wait", sent |-> client[u].sent + 1]]
    BY <1>3 DEF SendChunk, Posts
  <2>2. \A v \in Uploads : client[v].pc = "quit" => client'[v].pc = "quit"
    BY <2>1, ClientTypes
  <2> QED
    BY <1>1, <1>2, <2>1, <2>2, QuietOrderly
<1>4. ASSUME Duplicate(u)  PROVE Orderly'
  <2>1. UNCHANGED <<active, files, gone, client>> /\ <<u, 2>> \in Posts
    BY <1>4 DEF Duplicate, Posts
  <2>2. PICK chunk \in 1..client[u].sent : Arrives(<<u, 2>>, chunk)
    BY <1>4 DEF Duplicate
  <2> QED
    BY <1>1, <1>2, <2>1, <2>2, QuietOrderly
<1>5. ASSUME HearOk(u) \/ Quit(u)  PROVE Orderly'
  <2>1. UNCHANGED <<active, files, gone, chunkPost>> /\ client[u].pc = "wait"
    BY <1>5 DEF HearOk, Quit
  <2>2. \A v \in Uploads \ {u} : client'[v] = client[v]
    BY <1>5, ClientTypes DEF HearOk, Quit
  <2>3. PostsRest /\ \A v \in Uploads : client[v].pc = "quit" => client'[v].pc = "quit"
    BY <2>1, <2>2 DEF PostsRest
  <2> QED
    BY <1>1, <2>1, <2>3, QuietOrderly
<1>6. ASSUME Cancel(u)  PROVE Orderly'
  <2>1. /\ UNCHANGED <<active, chunkPost, client>> /\ client[u].pc = "quit" /\ PostsRest
    BY <1>6, ClientTypes DEF Cancel, PostsRest, Clients, ClientSound
  <2>2. CASE Holds(u) /\ RemoveDir
    <3>1. active # NoSession /\ active.upload = u
      BY <2>2 DEF Holds
    <3>2. \A q \in Posts : Writing(q) => client[q[1]].pc = "quit"
      BY <2>1, <3>1 DEF Orderly, WriterSound
    <3>3. \A q \in Posts : chunkPost'[q].pc = "restore" => client[q[1]].pc = "quit"
      BY <2>1, <3>1, LostReader
    <3> QED
      BY <1>1, <2>1, <2>2, <3>1, <3>2, <3>3, RemovedOrderly
  <2>3. CASE KeepDirs
    BY <1>1, <2>1, <2>3, QuietOrderly DEF KeepDirs
  <2> QED
    BY <1>6, <2>2, <2>3 DEF Cancel
<1>7. ASSUME Cancelled(u)  PROVE Orderly'
  <2>1. /\ active' = NoSession /\ UNCHANGED <<files, gone, client, chunkPost>>
        /\ active # NoSession /\ active.dir = cancel[u].dir /\ cancel[u].pc = "clear"
    BY <1>7 DEF Cancelled, Crosses
  <2>2. active.dir \in gone /\ PostsRest
    BY <2>1, ClientTypes DEF CancelSound, PostsRest
  <2> QED
    BY <2>1, <2>2, EmptiedOrderly
<1> QED
  BY <1>3, <1>4, <1>5, <1>6, <1>7

LEMMA EmptyingOrderly ==
  ASSUME ImportTidy, Orderly, ~crossed', NEW p \in Posts, Evicted(p) \/ Dropped(p) \/ Cleared(p)
  PROVE  Orderly'
<1>1. /\ active' = NoSession /\ UNCHANGED <<files, gone, client>>
      /\ active # NoSession /\ active.dir = chunkPost[p].dir
      /\ chunkPost[p].pc \in {"evict", "dropExpired", "dropShort", "clear"}
  BY DEF Evicted, Dropped, Cleared, Crosses
<1>2. active.dir \in gone
  BY <1>1 DEF ImportTidy, PostSound
<1>3. PostsRest
  BY MovesIsMovesFor, RestingPosts DEF Evicted, Dropped, Cleared, ImportTidy
<1> QED
  BY <1>1, <1>2, <1>3, EmptiedOrderly

LEMMA QuietPostOrderly ==
  ASSUME ImportTidy, Orderly, NEW p \in Posts,
         MakeDirThrows(p) \/ ReadBody(p) \/ WriteThrows(p)
  PROVE  Orderly'
<1>1. UNCHANGED <<active, files, gone, client>>
  BY DEF MakeDirThrows, ReadBody, WriteThrows
<1>2. PostsRest
  BY MovesIsMovesFor, RestingPosts DEF MakeDirThrows, ReadBody, WriteThrows, ImportTidy
<1> QED
  BY <1>1, <1>2, QuietOrderly DEF ImportTidy

LEMMA StartOrderly == ASSUME ImportTidy, Orderly, NEW p \in Posts, Start(p) PROVE Orderly'
<1>1. ImportTypeOK /\ UNCHANGED <<active, client>>
  BY DEF ImportTidy, Start
<1>2. CASE KeepDirs /\ PostsRest
  BY <1>1, <1>2, QuietOrderly DEF KeepDirs
<1>3. CASE /\ active # NoSession /\ ~active.importing /\ active.expired
           /\ MovesFor(p, "evict", active.dir) /\ RemoveDir
  <2>1. PostsRest
    BY <1>1, <1>3, RestingPosts
  <2>2. \A q \in Posts : ~Writing(q)
    BY <1>3 DEF Orderly, WriterSound
  <2>3. \A q \in Posts : chunkPost'[q].pc = "restore" => client[q[1]].pc = "quit"
    BY <1>3, <2>1, LostReader DEF PostsRest
  <2> QED
    BY <1>1, <1>3, <2>1, <2>2, <2>3, RemovedOrderly
<1>4. ASSUME NEW pc \in {"failed", "mkdir", "body"}, Moves(p, pc)  PROVE PostsRest
  BY <1>1, <1>4, MovesIsMovesFor, RestingPosts
<1> QED
  BY <1>2, <1>3, <1>4 DEF Start, Busy

LEMMA TakeTurnOrderly ==
  ASSUME ImportTidy, Orderly, NEW p \in Posts, TakeTurn(p)  PROVE Orderly'
<1>1. ImportTypeOK /\ UNCHANGED <<active, client>> /\ chunkPost[p].pc = "turn"
  BY DEF ImportTidy, TakeTurn
<1>2. CASE KeepDirs /\ Moves(p, "failed")
  <2>1. PostsRest
    BY <1>1, <1>2, MovesIsMovesFor, RestingPosts
  <2> QED
    BY <1>1, <1>2, <2>1, QuietOrderly DEF KeepDirs
<1>3. CASE /\ active # NoSession /\ ~active.importing /\ active.expired
           /\ MovesFor(p, "dropExpired", active.dir) /\ RemoveDir
  <2>1. PostsRest
    BY <1>1, <1>3, RestingPosts
  <2>2. \A q \in Posts : ~Writing(q)
    BY <1>3 DEF Orderly, WriterSound
  <2>3. \A q \in Posts : chunkPost'[q].pc = "restore" => client[q[1]].pc = "quit"
    BY <1>3, <2>1, LostReader DEF PostsRest
  <2> QED
    BY <1>1, <1>3, <2>1, <2>2, <2>3, RemovedOrderly
<1>4. CASE /\ Holds(p[1]) /\ ~(active.expired /\ ~active.importing)
           /\ KeepDirs /\ MovesFor(p, "write", active.dir)
           /\ active.received = chunkPost[p].chunk - 1
  <2>1. /\ UNCHANGED <<files, gone>> /\ Dirs' = Dirs
        /\ active # NoSession /\ active.upload = p[1]
    BY <1>4 DEF KeepDirs, Holds, Dirs
  <2>2. /\ chunkPost'[p].pc = "write" /\ chunkPost'[p].dir = active.dir
        /\ chunkPost'[p].chunk = chunkPost[p].chunk
        /\ \A q \in Posts \ {p} : chunkPost'[q] = chunkPost[q]
    BY <1>1, <1>4, PostMoved
  <2>3. chunkPost[p].chunk \in 1..NChunks /\ chunkPost[p].chunk = active.received + 1
    <3>1. chunkPost[p].chunk \in 1..NChunks
      BY <1>1 DEF ImportTidy, PostSound, Chunks
    <3>2. active.received \in Nat
      BY <1>1, <2>1 DEF ImportTypeOK, Session
    <3> QED
      BY <1>4, <3>1, <3>2, ImportAssumption
  <2>4. ~active.importing /\ ~active.expired
    BY <1>4, <2>1, <2>3, ImportAssumption DEF Orderly, SlotSound
  <2>5. WriterSound(p)'
    BY <1>1, <2>1, <2>2, <2>3, <2>4 DEF WriterSound, Orderly, SlotSound
  <2>6. ASSUME NEW q \in Posts \ {p}  PROVE Writing(q)' => WriterSound(q)'
    BY <1>1, <2>1, <2>2 DEF Orderly, Writing, WriterSound
  <2>7. ASSUME NEW q \in Posts  PROVE ReaderSound(q)' /\ chunkPost'[q].pc # "dropShort"
    BY <1>1, <2>1, <2>2 DEF Orderly, Reading, ReaderSound
  <2>8. SlotSound' /\ \A d \in Dirs' \ gone' : active' # NoSession /\ active'.dir = d
    BY <1>1, <2>1 DEF Orderly, SlotSound
  <2> QED
    BY <2>5, <2>6, <2>7, <2>8 DEF Orderly
<1> QED
  BY <1>2, <1>3, <1>4 DEF TakeTurn, Holds

LEMMA EndRestoreOrderly ==
  ASSUME ImportTidy, Orderly, NEW p \in Posts, EndRestore(p)  PROVE Orderly'
<1>1. /\ ImportTypeOK /\ UNCHANGED <<active, client>> /\ chunkPost[p].pc = "restore"
  BY DEF ImportTidy, EndRestore
<1>2. ASSUME KeepDirs, NEW outcome \in {"restored", "failed"}, Moves(p, outcome)
      PROVE  Orderly'
  <2>1. PostsRest
    BY <1>1, <1>2, MovesIsMovesFor, RestingPosts
  <2> QED
    BY <1>1, <1>2, <2>1, QuietOrderly DEF KeepDirs
<1>3. CASE Holds(p[1]) /\ RemoveDir /\ MovesFor(p, "clear", active.dir)
  <2>1. PostsRest /\ chunkPost'[p].pc = "clear"
    BY <1>1, <1>3, RestingPosts, PostMoved
  <2>2. active # NoSession /\ active.upload = p[1]
    BY <1>3 DEF Holds
  <2>3. active.importing \/ client[p[1]].pc = "quit"
    BY <1>1, LostReader
  <2>4. \A q \in Posts : Writing(q) => client[q[1]].pc = "quit"
    BY <2>2, <2>3, NoWriter DEF Orderly, WriterSound
  <2>5. ASSUME NEW q \in Posts, chunkPost'[q].pc = "restore"  PROVE client[q[1]].pc = "quit"
    <3> SUFFICES ASSUME client[q[1]].pc # "quit"  PROVE FALSE
      OBVIOUS
    <3>1. chunkPost[q].pc = "restore" /\ q # p
      BY <2>1, <2>5 DEF PostsRest
    <3>2. Reading(q) /\ active.upload = q[1]
      BY <3>1, LostReader
    <3>3. Reading(p)
      BY <1>1, <2>2, <3>2, LostReader
    <3> QED
      BY <3>1, <3>2, <3>3 DEF Orderly, ReaderSound
  <2> QED
    BY <1>1, <1>3, <2>1, <2>2, <2>3, <2>4, <2>5, RemovedOrderly
<1> QED
  BY <1>2, <1>3 DEF EndRestore

LEMMA MakeDirOrderly == ASSUME ImportTidy, Orderly, NEW p \in Posts, MakeDir(p) PROVE Orderly'
<1> DEFINE n == Len(files) + 1
<1>1. /\ chunkPost[p].pc = "mkdir" /\ files' = Append(files, <<>>) /\ MovesFor(p, "body", 0)
      /\ active = NoSession /\ UNCHANGED <<gone, client>> /\ p[1] \in Uploads
      /\ active' = [upload |-> p[1], dir |-> n, received |-> 0, bytes |-> 0,
                    importing |-> FALSE, expired |-> FALSE]
  BY MovesIsMovesFor, HandlerFacts DEF MakeDir
<1>2. ImportTypeOK /\ files \in Seq(Seq(Chunks)) /\ Len(files) \in Nat /\ gone \subseteq 1..Len(files)
  BY DEF ImportTidy, ImportTypeOK, Dirs
<1>3. /\ Len(files') = n /\ files'[n] = <<>> /\ n \in Nat /\ Dirs' = Dirs \cup {n} /\ n \notin Dirs
  BY <1>1, <1>2 DEF Dirs
<1>4. Dirs \ gone = {} /\ n \notin gone
  BY <1>1, <1>2, <1>3 DEF Orderly, Dirs
<1> HIDE DEF n
<1>5. /\ active'.upload = p[1] /\ active'.dir = n /\ active'.received = 0 /\ active'.bytes = 0
      /\ active'.importing = FALSE /\ active'.expired = FALSE
  BY <1>1
<1>6. active' # NoSession
  <2>1. active' \in [upload : Uploads, dir : Nat, received : Nat, bytes : Nat,
                     importing : BOOLEAN, expired : BOOLEAN]
    BY <1>1, <1>3
  <2> QED
    BY <2>1, ImportAssumption
<1>7. PostsRest
  BY <1>1, <1>2, RestingPosts
<1>8. ASSUME NEW q \in Posts, chunkPost'[q].pc \in {"write", "restore"}
      PROVE  chunkPost'[q] = chunkPost[q] /\ chunkPost[q].dir # n
  BY <1>3, <1>7, <1>8 DEF PostsRest, ImportTidy, PostSound
<1>9. ASSUME NEW q \in Posts
      PROVE  ~Writing(q)' /\ ReaderSound(q)' /\ chunkPost'[q].pc # "dropShort"
  <2>1. ~Writing(q)' /\ ~Reading(q)'
    BY <1>5, <1>8 DEF Writing, Reading
  <2>2. chunkPost'[q].pc = "restore" => client[q[1]].pc = "quit"
    BY <1>1, <1>8, LostReader
  <2>3. chunkPost'[q].pc # "dropShort"
    BY <1>7 DEF PostsRest, Orderly
  <2> QED
    BY <1>1, <2>1, <2>2, <2>3 DEF ReaderSound
<1>10. SlotSound'
  <2>1. Bytes(0) = 0
    BY ImportAssumption DEF Bytes
  <2>2. <<>> = [i \in 1..0 |-> i]
    OBVIOUS
  <2> QED
    BY <1>1, <1>3, <1>4, <1>5, <2>1, <2>2, ImportAssumption DEF SlotSound, Bytes
<1>11. \A d \in Dirs' \ gone' : active' # NoSession /\ active'.dir = d
  BY <1>1, <1>3, <1>4, <1>5, <1>6
<1> QED
  BY <1>9, <1>10, <1>11 DEF Orderly

\* The chunk after the last of a file's first n.
LEMMA LongerFile ==
  ASSUME NEW n \in Nat
  PROVE  Append([i \in 1..n |-> i], n + 1) = [i \in 1..(n + 1) |-> i]
<1> DEFINE s == [i \in 1..n |-> i]
           t == [i \in 1..(n + 1) |-> i]
           a == Append(s, n + 1)
<1>1. s \in Seq(Nat) /\ Len(s) = n /\ \A i \in 1..n : s[i] = i
  OBVIOUS
<1>2. t \in Seq(Nat) /\ Len(t) = n + 1 /\ \A i \in 1..(n + 1) : t[i] = i
  OBVIOUS
<1> HIDE DEF s, t
<1>3. /\ a \in Seq(Nat) /\ Len(a) = n + 1 /\ a[n + 1] = n + 1
      /\ \A i \in 1..n : a[i] = s[i]
  BY <1>1
<1>4. \A i \in 1..(n + 1) : a[i] = t[i]
  BY <1>1, <1>2, <1>3
<1> HIDE DEF a
<1>5. a = t
  BY <1>2, <1>3, <1>4
<1> QED
  BY <1>5 DEF a, s, t

LEMMA WroteOrderly ==
  ASSUME ImportTidy, Orderly, ~crossed', NEW p \in Posts, Wrote(p)  PROVE Orderly'
<1> DEFINE chunk == chunkPost[p].chunk
           received == active.received + 1
           bytes == active.bytes + Size(chunk)
           s == [active EXCEPT !.received = @ + 1, !.bytes = @ + Size(chunk), !.expired = FALSE]
<1>1. /\ chunkPost[p].pc = "write" /\ UNCHANGED client /\ ImportTypeOK
      /\ active # NoSession /\ active.dir = chunkPost[p].dir
  BY DEF Wrote, Crosses, ImportTidy
<1>2. Writing(p) /\ ~active.importing
  BY <1>1, NoWriter DEF Writing
<1>3. /\ p[1] = active.upload /\ chunk = received
      /\ client[p[1]].pc = "quit" \/ active.dir \notin gone
  BY <1>2 DEF Orderly, WriterSound
<1>4. /\ active \in [upload : Uploads, dir : Nat, received : Nat, bytes : Nat,
                     importing : BOOLEAN, expired : BOOLEAN]
      /\ active.dir \in Dirs
  BY <1>1, PostTypes DEF ImportTypeOK, Session, Dirs
<1>5. received \in Nat /\ received <= NChunks /\ active.received \in Nat /\ received # 0
  <2>1. chunk \in 1..NChunks
    BY <1>1 DEF ImportTidy, PostSound, Chunks
  <2> QED
    BY <1>3, <1>4, <2>1, ImportAssumption
<1>6. bytes = Bytes(received)
  <2>1. active.bytes = Bytes(active.received)
    BY <1>1 DEF Orderly, SlotSound
  <2> QED
    BY <1>3, <1>5, <2>1, ImportAssumption DEF Bytes, Size, TotalSize
<1>7. bytes \in Nat /\ (received = NChunks => bytes = TotalSize)
  BY <1>5, <1>6, ImportAssumption DEF Bytes, TotalSize
<1>8. LET d == active.dir IN
      /\ Len(FilesWith(p)) = Len(files)
      /\ d \notin gone => FilesWith(p)[d] = [i \in 1..received |-> i]
  <2>1. /\ Len(FilesWith(p)) = Len(files)
        /\ active.dir \notin gone => FilesWith(p)[active.dir] =
             IF chunk = 1 THEN <<1>> ELSE Append(files[active.dir], chunk)
    BY <1>1, Written
  <2>2. active.dir \notin gone => files[active.dir] = [i \in 1..active.received |-> i]
    BY <1>1 DEF Orderly, SlotSound
  <2>3. <<1>> = [i \in 1..1 |-> i]
    OBVIOUS
  <2>4. Append([i \in 1..active.received |-> i], received) = [i \in 1..received |-> i]
    BY <1>5, LongerFile
  <2> HIDE DEF received, chunk
  <2> QED
    BY <1>3, <2>1, <2>2, <2>3, <2>4
<1>9. ASSUME NEW q \in Posts \ {p}, chunkPost[q].pc = "write"
      PROVE  ~Writing(q)
  <2>1. Writing(q) => Head(appendLine[q[1]]) = q /\ q[1] = active.upload
    BY <1>9, HandlerFacts DEF Orderly, WriterSound
  <2>2. Head(appendLine[p[1]]) = p
    BY <1>1, HandlerFacts
  <2> QED
    BY <1>3, <2>1, <2>2
<1>10. ASSUME NEW q \in Posts
       PROVE  ~Reading(q) /\ (chunkPost[q].pc = "restore" => client[q[1]].pc = "quit")
  BY <1>2 DEF Orderly, ReaderSound
\* One chunk more, and perhaps the import begins.
<1>11. ASSUME NEW pc \in {"ok", "restore"}, NEW d, MovesFor(p, pc, d),
              pc = "restore" => d = active.dir /\ received = NChunks,
              active'.upload = active.upload, active'.dir = active.dir,
              active'.received = received, active'.bytes = bytes,
              active'.importing <=> pc = "restore", active' # NoSession,
              active'.expired = FALSE,
              files' = FilesWith(p), UNCHANGED gone
       PROVE  Orderly'
  <2> HIDE DEF received, bytes, chunk
  <2>1. /\ chunkPost'[p].pc = pc /\ chunkPost'[p].dir = d
        /\ \A q \in Posts \ {p} : chunkPost'[q] = chunkPost[q]
    BY <1>1, <1>11, PostMoved
  <2>2. SlotSound'
    BY <1>1, <1>3, <1>5, <1>6, <1>8, <1>11 DEF SlotSound, Bytes
  <2>3. \A e \in Dirs' \ gone' : active' # NoSession /\ active'.dir = e
    BY <1>8, <1>11 DEF Orderly, Dirs
  <2>4. ASSUME NEW q \in Posts  PROVE ~Writing(q)'
    BY <1>9, <1>11, <2>1, <1>1 DEF Writing
  <2>5. ASSUME NEW q \in Posts  PROVE chunkPost'[q].pc # "dropShort"
    BY <1>11, <2>1 DEF Orderly
  <2>6. ASSUME NEW q \in Posts \ {p}
        PROVE  ~Reading(q)' /\ (chunkPost'[q].pc = "restore" => client[q[1]].pc = "quit")
    BY <1>1, <1>10, <1>11, <2>1 DEF Reading
  <2>7. ASSUME NEW q \in Posts  PROVE ReaderSound(q)'
    BY <1>1, <1>3, <1>11, <2>1, <2>6 DEF Reading, ReaderSound
  <2> QED
    BY <2>2, <2>3, <2>4, <2>5, <2>7 DEF Orderly
<1>12. ASSUME NEW t, t = s
       PROVE  /\ t.upload = active.upload /\ t.dir = active.dir /\ t.received = received
              /\ t.bytes = bytes /\ t.importing = FALSE /\ t.expired = FALSE
              /\ t # NoSession
              /\ t \in [upload : Uploads, dir : Nat, received : Nat, bytes : Nat,
                        importing : BOOLEAN, expired : BOOLEAN]
  <2>1. t = [active EXCEPT !.received = received, !.bytes = bytes, !.expired = FALSE]
    BY <1>12
  <2>2. active.importing = FALSE
    BY <1>2, <1>4
  <2> HIDE DEF received, bytes, chunk
  <2>3. /\ t.upload = active.upload /\ t.dir = active.dir /\ t.received = received
        /\ t.bytes = bytes /\ t.importing = FALSE /\ t.expired = FALSE
    BY <1>4, <2>1, <2>2
  <2>4. t \in [upload : Uploads, dir : Nat, received : Nat, bytes : Nat,
               importing : BOOLEAN, expired : BOOLEAN]
    BY <1>4, <1>5, <1>7, <2>1
  <2> QED
    BY <2>3, <2>4, ImportAssumption
<1>13. /\ s.upload = active.upload /\ s.dir = active.dir /\ s.received = received
       /\ s.bytes = bytes /\ s.importing = FALSE /\ s.expired = FALSE /\ s # NoSession
       /\ s \in [upload : Uploads, dir : Nat, received : Nat, bytes : Nat,
                 importing : BOOLEAN, expired : BOOLEAN]
  BY <1>12
<1> HIDE DEF s, received, bytes, chunk
<1>14. ASSUME active' = s, received # NChunks, Moves(p, "ok"),
              files' = FilesWith(p), UNCHANGED gone
       PROVE  Orderly'
  <2>1. MovesFor(p, "ok", 0)
    BY <1>14, MovesIsMovesFor
  <2> QED
    BY <1>11, <1>13, <1>14, <2>1
<1>15. ASSUME active' = [s EXCEPT !.importing = TRUE], received = NChunks,
              MovesFor(p, "restore", s.dir), files' = FilesWith(p), UNCHANGED gone
       PROVE  Orderly'
  <2>1. /\ active'.upload = active.upload /\ active'.dir = active.dir
        /\ active'.received = received /\ active'.bytes = bytes
        /\ active'.importing = TRUE /\ active'.expired = FALSE
        /\ active' \in [upload : Uploads, dir : Nat, received : Nat, bytes : Nat,
                        importing : BOOLEAN, expired : BOOLEAN]
    BY <1>13, <1>15
  <2> QED
    BY <1>11, <1>13, <1>15, <2>1, ImportAssumption
<1>16. s.received = NChunks => FullLength(s) /\ s.upload = p[1]
  BY <1>3, <1>7, <1>13 DEF FullLength
<1>17. \/ /\ s.received = NChunks /\ active' = [s EXCEPT !.importing = TRUE]
          /\ MovesFor(p, "restore", s.dir) /\ files' = FilesWith(p) /\ UNCHANGED gone
       \/ /\ s.received # NChunks /\ active' = s /\ Moves(p, "ok")
          /\ files' = FilesWith(p) /\ UNCHANGED gone
  BY <1>1, <1>16 DEF Wrote, s, chunk
<1> QED
  BY <1>13, <1>14, <1>15, <1>17

\* Nothing in the slot, nothing on disk, no post that has come so far.
LEMMA EmptyOrderly ==
  ASSUME active = NoSession, files = <<>>,
         \A p \in Posts : chunkPost[p].pc \notin {"write", "restore", "dropShort"}
  PROVE  Orderly
<1>1. Dirs = {}
  BY DEF Dirs
<1>2. \A p \in Posts : ~Writing(p) /\ ReaderSound(p) /\ chunkPost[p].pc # "dropShort"
  BY DEF Writing, Reading, ReaderSound
<1> QED
  BY <1>1, <1>2 DEF Orderly, SlotSound

LEMMA LoseOrderly == ASSUME ImportTidy, LoseImport PROVE Orderly'
<1>1. active' = NoSession /\ files' = <<>>
  BY DEF LoseImport
<1>2. chunkPost' = [p \in Posts |-> IF chunkPost[p].pc \in {"never", "off"} THEN chunkPost[p]
                                    ELSE [pc |-> "failed", chunk |-> chunkPost[p].chunk, dir |-> 0]]
  BY DEF LoseImport
<1>3. ASSUME NEW p \in Posts
      PROVE  chunkPost'[p].pc \notin {"write", "restore", "dropShort"}
  <2>1. CASE chunkPost[p].pc \in {"never", "off"}
    BY <1>2, <2>1
  <2>2. CASE chunkPost[p].pc \notin {"never", "off"}
    BY <1>2, <2>2
  <2> QED
    BY <2>1, <2>2
<1>4. Dirs' = {}
  BY <1>1 DEF Dirs
<1>5. ASSUME NEW p \in Posts
      PROVE  ~Writing(p)' /\ ReaderSound(p)' /\ chunkPost'[p].pc # "dropShort"
  BY <1>3 DEF Writing, Reading, ReaderSound
<1> QED
  BY <1>1, <1>4, <1>5 DEF Orderly, SlotSound

\* Who goes on with another's session is not forgotten before the process ends.
LEMMA OrderlyStep == ASSUME ImportHeld, ImportMove PROVE crossed' \/ Orderly'
<1> SUFFICES ASSUME ~crossed'  PROVE Orderly'
  OBVIOUS
<1>1. ImportTidy /\ ImportTypeOK
  BY DEF ImportHeld, ImportTidy
<1>2. CASE LoseImport
  BY <1>1, <1>2, LoseOrderly
<1>3. CASE crossed
  <2>1. ASSUME NEW u \in Uploads,
               \/ SendChunk(u) \/ Duplicate(u) \/ HearOk(u) \/ Quit(u)
               \/ Cancel(u) \/ Cancelled(u)
        PROVE  crossed'
    BY <1>3, <2>1 DEF SendChunk, Duplicate, HearOk, Quit, Cancel, Cancelled, Crosses
  <2>2. ASSUME NEW p \in Posts, HandlePost(p)  PROVE crossed'
    BY <1>3, <2>2 DEF HandlePost, Start, Evicted, MakeDir, MakeDirThrows, ReadBody, TakeTurn,
                      Dropped, WriteThrows, Wrote, EndRestore, Cleared, Crosses
  <2>3. ExpireSession \/ UNCHANGED importVars => crossed'
    BY <1>3 DEF ExpireSession, importVars
  <2> QED
    BY <1>2, <2>1, <2>2, <2>3 DEF ImportMove, ImportStep
<1>4. CASE ~crossed
  <2>1. Orderly
    BY <1>4 DEF ImportHeld
  <2>2. ASSUME NEW u \in Uploads,
               \/ SendChunk(u) \/ Duplicate(u) \/ HearOk(u) \/ Quit(u)
               \/ Cancel(u) \/ Cancelled(u)
        PROVE  Orderly'
    BY <1>1, <2>1, <2>2, ClientsOrderly
  <2>3. ASSUME NEW p \in Posts, HandlePost(p)  PROVE Orderly'
    BY <1>1, <2>1, <2>3, EmptyingOrderly, QuietPostOrderly, StartOrderly, TakeTurnOrderly,
       MakeDirOrderly, WroteOrderly, EndRestoreOrderly DEF HandlePost
  <2>4. CASE ExpireSession
    BY <1>1, <2>1, <2>4, ExpireOrderly
  <2>5. CASE UNCHANGED importVars
    BY <1>1, <2>1, <2>5, QuietOrderly DEF importVars, PostsRest
  <2> QED
    BY <1>2, <2>2, <2>3, <2>4, <2>5 DEF ImportMove, ImportStep
<1> QED
  BY <1>3, <1>4

-----------------------------------------------------------------------------

\* The slot of the restore, its lines and its directories stay in order for as long as the
\* process runs; what lib/import-session.ts leaves open is what a handler does that comes
\* back from the disk to another's session.
THEOREM ImportInvariant == ServerSpec => []ImportHeld
<1>1. ServerInit => ImportHeld
  <2> SUFFICES ASSUME ServerInit  PROVE ImportHeld
    OBVIOUS
  <2>1. PICK w \in Workloads : ImportInit(w.uploads, w.late)
    BY DEF ServerInit
  <2>2. /\ ImportTidy /\ crossed = FALSE /\ active = NoSession /\ files = <<>>
        /\ \A p \in Posts : chunkPost[p].pc \in {"never", "off"}
    BY <2>1, InitTidy
  <2> QED
    BY <2>2, EmptyOrderly DEF ImportHeld
<1>2. ImportHeld /\ [ServerNext]_serverVars => ImportHeld'
  BY ImportSees, TidyStep, OrderlyStep DEF ImportHeld
<1> QED
  BY <1>1, <1>2, PTL DEF ServerSpec

\* NoDirLeft: unless a handler went on with another's session, each directory that
\* startSession made is the active session's or has been removed, for any number of clients
\* and chunks, late deliveries and cancels.
THEOREM NoDirLeftSafe == ServerSpec => []NoDirLeft
<1>1. ImportHeld => NoDirLeft
  BY DEF ImportHeld, Orderly, NoDirLeft
<1> QED
  BY <1>1, ImportInvariant, PTL

\* ImportSound: under the same proviso, the file that a restore finds on disk holds every
\* chunk once and in order, and a restore whose client has not cancelled keeps the slot and
\* its file.
THEOREM ImportSafe == ServerSpec => []ImportSound
<1>1. ImportHeld => ImportSound
  <2> SUFFICES ASSUME ImportHeld, ~crossed, NEW p \in Posts, chunkPost[p].pc = "restore"
               PROVE  /\ chunkPost[p].dir \in gone \/ files[chunkPost[p].dir] = WholeFile
                      /\ client[p[1]].pc = "quit"
                           \/ (/\ Holds(p[1]) /\ active.dir = chunkPost[p].dir
                               /\ chunkPost[p].dir \notin gone)
    BY DEF ImportSound, Restores
  <2>1. ImportTidy /\ Orderly
    BY DEF ImportHeld
  <2>2. chunkPost[p].dir \in gone \/ files[chunkPost[p].dir] = WholeFile
    <3> SUFFICES ASSUME chunkPost[p].dir \notin gone
                 PROVE  files[chunkPost[p].dir] = WholeFile
      OBVIOUS
    <3>1. chunkPost[p].dir \in Dirs
      BY <2>1 DEF ImportTidy, PostSound
    <3>2. active # NoSession /\ active.dir = chunkPost[p].dir
      BY <2>1, <3>1 DEF Orderly
    <3>3. active.importing
      BY <2>1, <3>2 DEF Orderly, ReaderSound, Reading
    <3> QED
      BY <2>1, <3>2, <3>3 DEF Orderly, SlotSound, WholeFile, Chunks
  <2>3. client[p[1]].pc = "quit"
          \/ (/\ Holds(p[1]) /\ active.dir = chunkPost[p].dir /\ chunkPost[p].dir \notin gone)
    BY <2>1, LostReader DEF Reading, Holds
  <2> QED
    BY <2>2, <2>3
<1> QED
  BY <1>1, ImportInvariant, PTL

=============================================================================
