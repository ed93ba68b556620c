---------------------------- MODULE ImportSession ----------------------------
(***************************************************************************)
(* The one upload slot of the backup restore.  A client posts its file in  *)
(* chunks; the first opens the session, the last hands the assembled file  *)
(* to the importer.  Handlers give way at every await: on the start mutex, *)
(* the body, the per-upload queue of appends, and each disk operation.     *)
(* After a disk operation a handler goes on with `active`, whatever it     *)
(* holds by then.                                                          *)
(*                                                                         *)
(* Every file has NChunks chunks, the last one shorter than the others.  A *)
(* client has one POST under way (copy 1); one more delivery of any of its *)
(* chunks (copy 2) may come late.  A client that hears of a failure, or    *)
(* hears nothing, cancels, and the DELETE may be lost.  Removing a         *)
(* directory takes effect when it is asked for.                            *)
(***************************************************************************)
EXTENDS Integers, Sequences

CONSTANTS
    Uploads,
    NChunks,     \* chunks of a file
    NoSession

ASSUME ImportAssumption ==
    /\ NChunks \in Nat \ {0, 1}
    /\ NoSession \notin [upload : Uploads, dir : Nat, received : Nat, bytes : Nat,
                         importing : BOOLEAN, expired : BOOLEAN]

Posts  == Uploads \X {1, 2}
Chunks == 1..NChunks

VARIABLES
    active,      \* the session in the slot, or NoSession
    startLine,   \* POSTs waiting for the start mutex; the head holds it
    appendLine,  \* per upload, its POSTs waiting to append; the head appends
    chunkPost,   \* the handler of each POST
    files,       \* the chunks in the file of each directory this process made
    gone,        \* the directories removed
    client,
    cancel,      \* the client's DELETE
    crossed      \* history: a handler went on with another's session

importVars == <<active, startLine, appendLine, chunkPost, files, gone, client, cancel, crossed>>

Dirs == 1..Len(files)

Session == [upload : Uploads, dir : Dirs, received : Nat, bytes : Nat,
            importing : BOOLEAN, expired : BOOLEAN]

OnDisk == {"evict", "mkdir", "write", "dropExpired", "dropShort", "clear"}

ImportTypeOK ==
    /\ active \in Session \cup {NoSession}
    /\ startLine \in Seq(Posts)
    /\ appendLine \in [Uploads -> Seq(Posts)]
    /\ chunkPost \in [Posts ->
                      [pc    : OnDisk \cup {"never", "off", "start", "body", "turn",
                                            "restore", "ok", "restored", "failed"},
                       chunk : Chunks \cup {0},
                       dir   : 0..Len(files)]]   \* the session read before the await
    /\ files \in Seq(Seq(Chunks))
    /\ gone \subseteq Dirs
    /\ client \in [Uploads -> [pc : {"off", "next", "wait", "quit", "done"},
                               sent : Chunks \cup {0}]]
    /\ cancel \in [Uploads -> [pc : {"no", "sent", "clear", "done"}, dir : 0..Len(files)]]
    /\ crossed \in BOOLEAN

\* The clients of U are about to upload; a chunk of those of L comes twice.
ImportInit(U, L) ==
    /\ active = NoSession /\ startLine = <<>> /\ files = <<>> /\ gone = {}
    /\ appendLine = [u \in Uploads |-> <<>>]
    /\ chunkPost = [p \in Posts |->
                     [pc |-> IF p[2] = 2 /\ p[1] \notin L THEN "never" ELSE "off",
                      chunk |-> 0, dir |-> 0]]
    /\ client = [u \in Uploads |-> [pc |-> IF u \in U THEN "next" ELSE "off", sent |-> 0]]
    /\ cancel = [u \in Uploads |-> [pc |-> "no", dir |-> 0]]
    /\ crossed = FALSE

Size(chunk) == IF chunk = NChunks THEN 1 ELSE 2
TotalSize == 2 * NChunks - 1

Holds(u) == active # NoSession /\ active.upload = u
Moves(p, pc) == chunkPost' = [chunkPost EXCEPT ![p].pc = pc, ![p].dir = 0]
MovesFor(p, pc, d) == chunkPost' = [chunkPost EXCEPT ![p].pc = pc, ![p].dir = d]

\* The directory of the active session is removed, with its file.
RemoveDir ==
    /\ gone' = gone \cup {active.dir}
    /\ files' = [files EXCEPT ![active.dir] = <<>>]
KeepDirs == UNCHANGED <<files, gone>>

\* A handler goes on after the disk, with the slot it left for session d.
Crosses(d) == crossed' = (crossed \/ active = NoSession \/ active.dir # d)

-----------------------------------------------------------------------------
(* The client *)

\* The first chunk goes through startSession.
Arrives(p, chunk) ==
    /\ chunkPost' = [chunkPost EXCEPT ![p] =
                       [pc |-> IF chunk = 1 THEN "start" ELSE "body",
                        chunk |-> chunk, dir |-> 0]]
    /\ startLine' = IF chunk = 1 THEN Append(startLine, p) ELSE startLine

SendChunk(u) ==
    /\ client[u].pc = "next"
    /\ client' = [client EXCEPT ![u] = [pc |-> "wait", sent |-> @.sent + 1]]
    /\ Arrives(<<u, 1>>, client[u].sent + 1)
    /\ UNCHANGED <<active, appendLine, files, gone, cancel, crossed>>

Duplicate(u) ==
    /\ chunkPost[<<u, 2>>].pc = "off"
    /\ \E chunk \in 1..client[u].sent : Arrives(<<u, 2>>, chunk)
    /\ UNCHANGED <<active, appendLine, files, gone, client, cancel, crossed>>

HearOk(u) ==
    /\ client[u].pc = "wait"
    /\ \/ /\ chunkPost[<<u, 1>>].pc = "ok" /\ client[u].sent < NChunks
          /\ client' = [client EXCEPT ![u].pc = "next"]
       \/ /\ chunkPost[<<u, 1>>].pc = "restored"
          /\ client' = [client EXCEPT ![u].pc = "done"]
    /\ UNCHANGED <<active, startLine, appendLine, chunkPost, files, gone, cancel, crossed>>

\* Any other answer, or none (a gateway that timed out): uploadInChunks cancels.
Quit(u) ==
    /\ client[u].pc = "wait"
    /\ client' = [client EXCEPT ![u].pc = "quit"]
    /\ \E fate \in {"sent", "done"} : cancel' = [cancel EXCEPT ![u].pc = fate]
    /\ UNCHANGED <<active, startLine, appendLine, chunkPost, files, gone, crossed>>

\* clearSession, by the DELETE: no regard to `importing`.
Cancel(u) ==
    /\ cancel[u].pc = "sent"
    /\ IF Holds(u)
       THEN /\ RemoveDir
            /\ cancel' = [cancel EXCEPT ![u] = [pc |-> "clear", dir |-> active.dir]]
       ELSE cancel' = [cancel EXCEPT ![u] = [pc |-> "done", dir |-> 0]] /\ KeepDirs
    /\ UNCHANGED <<active, startLine, appendLine, chunkPost, client, crossed>>

Cancelled(u) ==
    /\ cancel[u].pc = "clear"
    /\ active' = NoSession
    /\ cancel' = [cancel EXCEPT ![u] = [pc |-> "done", dir |-> 0]]
    /\ Crosses(cancel[u].dir)
    /\ UNCHANGED <<startLine, appendLine, chunkPost, files, gone, client>>

-----------------------------------------------------------------------------
(* startSession *)

\* Mutated form: the expiry alone decides, and an import may outlive it.
BusyUntilExpiry(u) == active # NoSession /\ ~active.expired /\ active.upload # u

Busy(u) ==
    /\ active # NoSession
    /\ active.importing \/ (~active.expired /\ active.upload # u)

\* Mutated form: nobody waits for the mutex.
HoldsNothing(p) == TRUE

HoldsMutex(p) == Head(startLine) = p

Release == startLine' = Tail(startLine)

Start(p) ==
    /\ chunkPost[p].pc = "start" /\ HoldsMutex(p)
    /\ CASE Busy(p[1]) ->
              Moves(p, "failed") /\ Release /\ KeepDirs
         [] ~Busy(p[1]) /\ active = NoSession ->
              Moves(p, "mkdir") /\ KeepDirs /\ UNCHANGED startLine
         [] OTHER ->
              IF active.expired
              THEN /\ MovesFor(p, "evict", active.dir)
                   /\ RemoveDir
                   /\ UNCHANGED startLine
              ELSE Moves(p, "body") /\ Release /\ KeepDirs
    /\ UNCHANGED <<active, appendLine, client, cancel, crossed>>

Evicted(p) ==
    /\ chunkPost[p].pc = "evict"
    /\ active' = NoSession
    /\ Crosses(chunkPost[p].dir)
    /\ Moves(p, "mkdir")
    /\ UNCHANGED <<startLine, appendLine, files, gone, client, cancel>>

MakeDir(p) ==
    /\ chunkPost[p].pc = "mkdir"
    /\ files' = Append(files, <<>>)
    /\ active' = [upload |-> p[1], dir |-> Len(files) + 1, received |-> 0, bytes |-> 0,
                  importing |-> FALSE, expired |-> FALSE]
    /\ Moves(p, "body") /\ Release
    /\ UNCHANGED <<appendLine, gone, client, cancel, crossed>>

\* Mutated form: the mutex is not released by an exception.
KeepOnThrow(p) == UNCHANGED startLine

ReleaseOnThrow(p) == Release

MakeDirThrows(p) ==
    /\ chunkPost[p].pc = "mkdir"
    /\ Moves(p, "failed") /\ ReleaseOnThrow(p)
    /\ UNCHANGED <<active, appendLine, files, gone, client, cancel, crossed>>

-----------------------------------------------------------------------------
(* appendChunk *)

\* The body is read, and the append queued; or the connection breaks.
ReadBody(p) ==
    /\ chunkPost[p].pc = "body"
    /\ \/ /\ Moves(p, "turn")
          /\ appendLine' = [appendLine EXCEPT ![p[1]] = Append(@, p)]
       \/ Moves(p, "failed") /\ UNCHANGED appendLine
    /\ UNCHANGED <<active, startLine, files, gone, client, cancel, crossed>>

NextInLine(u) == appendLine' = [appendLine EXCEPT ![u] = Tail(@)]

\* appendChunkUnsafe up to its await.
TakeTurn(p) ==
    /\ chunkPost[p].pc = "turn" /\ Head(appendLine[p[1]]) = p
    /\ IF Holds(p[1]) /\ active.expired /\ ~active.importing
       THEN /\ MovesFor(p, "dropExpired", active.dir)
            /\ RemoveDir
            /\ UNCHANGED appendLine
       ELSE /\ KeepDirs
            /\ IF /\ Holds(p[1])
                  /\ active.received = chunkPost[p].chunk - 1
                  /\ active.bytes + Size(chunkPost[p].chunk) <= TotalSize
               THEN MovesFor(p, "write", active.dir) /\ UNCHANGED appendLine
               ELSE Moves(p, "failed") /\ NextInLine(p[1])
    /\ UNCHANGED <<active, startLine, client, cancel, crossed>>

\* An expired session, or one that is short of bytes, has been removed.
Dropped(p) ==
    /\ chunkPost[p].pc \in {"dropExpired", "dropShort"}
    /\ active' = NoSession
    /\ Crosses(chunkPost[p].dir)
    /\ Moves(p, "failed") /\ NextInLine(p[1])
    /\ UNCHANGED <<startLine, files, gone, client, cancel>>

\* The file is opened for writing by the session's first chunk.
WriteThrows(p) ==
    /\ chunkPost[p].pc = "write"
    /\ Moves(p, "failed") /\ NextInLine(p[1])
    /\ UNCHANGED <<active, startLine, files, gone, client, cancel, crossed>>

FilesWith(p) ==
    LET d == chunkPost[p].dir IN
    IF d \in gone THEN files
    ELSE [files EXCEPT ![d] = IF chunkPost[p].chunk = 1 THEN <<1>>
                              ELSE Append(@, chunkPost[p].chunk)]

FullLength(s) == s.bytes = TotalSize

\* The session in the slot is one chunk further; complete, it is handed to the
\* importer (getSessionStream), if it is still this upload's.
Wrote(p) ==
    /\ chunkPost[p].pc = "write"
    /\ Crosses(chunkPost[p].dir)
    /\ IF active = NoSession
       THEN /\ Moves(p, "failed") /\ NextInLine(p[1])
            /\ files' = FilesWith(p) /\ UNCHANGED <<active, gone>>
       ELSE LET s    == [active EXCEPT !.received = @ + 1,
                                       !.bytes = @ + Size(chunkPost[p].chunk),
                                       !.expired = FALSE]
                last == s.received = NChunks
            IN CASE last /\ ~FullLength(s) ->
                      /\ active' = s
                      /\ gone' = gone \cup {s.dir}
                      /\ files' = [FilesWith(p) EXCEPT ![s.dir] = <<>>]
                      /\ MovesFor(p, "dropShort", s.dir)
                      /\ UNCHANGED appendLine
                 [] last /\ FullLength(s) /\ s.upload = p[1] ->
                      /\ active' = [s EXCEPT !.importing = TRUE]
                      /\ MovesFor(p, "restore", s.dir) /\ NextInLine(p[1])
                      /\ files' = FilesWith(p) /\ UNCHANGED gone
                 [] OTHER ->
                      /\ active' = s
                      /\ Moves(p, IF last THEN "failed" ELSE "ok") /\ NextInLine(p[1])
                      /\ files' = FilesWith(p) /\ UNCHANGED gone
    /\ UNCHANGED <<startLine, client, cancel>>

\* processBackupImport ends, one way or the other, and its finally begins to clear.
EndRestore(p) ==
    /\ chunkPost[p].pc = "restore"
    /\ IF Holds(p[1])
       THEN RemoveDir /\ MovesFor(p, "clear", active.dir)
       ELSE KeepDirs /\ \E outcome \in {"restored", "failed"} : Moves(p, outcome)
    /\ UNCHANGED <<active, startLine, appendLine, client, cancel, crossed>>

Cleared(p) ==
    /\ chunkPost[p].pc = "clear"
    /\ active' = NoSession
    /\ Crosses(chunkPost[p].dir)
    /\ \E outcome \in {"restored", "failed"} : Moves(p, outcome)
    /\ UNCHANGED <<startLine, appendLine, files, gone, client, cancel>>

-----------------------------------------------------------------------------

\* Ten minutes without a chunk; no disk operation takes that long.
ExpireSession ==
    /\ active # NoSession /\ ~active.expired
    /\ \A p \in Posts : chunkPost[p].pc \notin OnDisk
    /\ \A u \in Uploads : cancel[u].pc # "clear"
    /\ active' = [active EXCEPT !.expired = TRUE]
    /\ UNCHANGED <<startLine, appendLine, chunkPost, files, gone, client, cancel, crossed>>

\* A restart: the slot is empty, and the old process's directories are nobody's.
LoseImport ==
    /\ active' = NoSession /\ startLine' = <<>> /\ files' = <<>> /\ gone' = {}
    /\ appendLine' = [u \in Uploads |-> <<>>]
    /\ chunkPost' = [p \in Posts |->
                      IF chunkPost[p].pc \in {"never", "off"} THEN chunkPost[p]
                      ELSE [pc |-> "failed", chunk |-> chunkPost[p].chunk, dir |-> 0]]
    /\ cancel' = [u \in Uploads |-> IF cancel[u].pc = "clear"
                                    THEN [pc |-> "done", dir |-> 0] ELSE cancel[u]]
    /\ crossed' = FALSE
    /\ UNCHANGED client

HandlePost(p) ==
    \/ Start(p) \/ Evicted(p) \/ MakeDir(p) \/ MakeDirThrows(p)
    \/ ReadBody(p) \/ TakeTurn(p) \/ Dropped(p) \/ WriteThrows(p) \/ Wrote(p)
    \/ EndRestore(p) \/ Cleared(p)

ImportStep ==
    \/ \E u \in Uploads : \/ SendChunk(u) \/ Duplicate(u) \/ HearOk(u) \/ Quit(u)
                          \/ Cancel(u) \/ Cancelled(u)
    \/ \E p \in Posts : HandlePost(p)
    \/ ExpireSession

ImportSpec == ImportInit(Uploads, Uploads) /\ [][ImportStep]_importVars

-----------------------------------------------------------------------------

WholeFile == [i \in Chunks |-> i]

Restores == {p \in Posts : chunkPost[p].pc = "restore"}

\* lib/import-session.ts: "A session whose file is being read by an in-flight import
\* must never be reclaimed": it keeps the slot, and its directory is on disk.
ImportKeepsSlot ==
    \A p \in Restores : Holds(p[1]) /\ active.dir = chunkPost[p].dir /\ active.dir \notin gone

\* As long as nobody went on with another's session: the file an import finds on
\* disk is whole, its chunks once and in order, though the deliveries of one upload
\* overlap; and unless its own client cancelled, the import keeps the slot and the
\* file, expired or not.
ImportSound ==
    crossed \/ \A p \in Restores :
                  LET d == chunkPost[p].dir IN
                  /\ d \in gone \/ files[d] = WholeFile
                  /\ client[p[1]].pc = "quit"
                       \/ (Holds(p[1]) /\ active.dir = d /\ d \notin gone)

\* Under the same proviso, no directory is left behind: each is the active
\* session's, or removed, however many first chunks arrive at once.
NoDirLeft ==
    crossed \/ \A d \in Dirs \ gone : active # NoSession /\ active.dir = d

\* A new upload can be opened again and again: no failure, cancellation, exception
\* or abandoned upload keeps the slot or the mutex for good.
SlotReopens ==
    []<>(startLine = <<>> /\ (active = NoSession \/ (active.expired /\ ~active.importing)))
=============================================================================
