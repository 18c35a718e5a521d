--------------------------- MODULE DownloadManager ---------------------------
(***************************************************************************)
(* The files of one client: what it downloads, what it has on disk and     *)
(* what it serves to others.                                               *)
(*                                                                         *)
(* Two threads: the main thread runs the user's commands, and the download *)
(* thread goes over the downloads again and again, fetching one missing    *)
(* piece of each per pass from whichever known peer has it.  They share    *)
(* the list of downloads (without a lock), `running', the databases of     *)
(* peers and of files, and the disk.                                       *)
(*                                                                         *)
(* A piece and its hash are one value, and so are a file that others offer *)
(* and the name it is shared under in a group; what this client offers     *)
(* itself under a name is whatever it has on its disk.  The list is a      *)
(* deque of pointers: an element appended while the thread walks it is     *)
(* seen in its next pass, since the end of the walk is taken when it       *)
(* begins.                                                                 *)
(***************************************************************************)
EXTENDS Naturals, Sequences, FiniteSets

CONSTANTS
  Files,
  PiecesOf,     \* the pieces of each file, in order
  Paths,        \* where files may be stored
  NameOf,       \* the file a path's last component names
  Peers,        \* the other clients
  Answers,      \* how each peer may answer a request for a piece
  InitialDisk,  \* what is on the disk when the client starts
  Zero,         \* a block of zeros, which a hole in a file reads as
  None,         \* no file, no entry
  MaxPieces,    \* bound: pieces of a file
  MaxDownloads  \* bound: downloads accepted

(* good: the piece; bad: other data, a refusal, or no connection; reset: an error
   no handler of the download thread catches; silent: no answer, ever *)
AnswerKinds == {"good", "bad", "reset", "silent"}

Range(s) == {s[i] : i \in DOMAIN s}
Pieces == {Zero} \cup UNION {Range(PiecesOf[f]) : f \in Files}

(* What a path may hold: some blocks, with holes between them. *)
Contents == UNION {[S -> Pieces] : S \in SUBSET (1..MaxPieces)}

ASSUME FilesAssumption ==
  /\ MaxPieces \in Nat
  /\ \A f \in Files : PiecesOf[f] \in Seq(Pieces) /\ Len(PiecesOf[f]) <= MaxPieces
  /\ NameOf \in [Paths -> Files]
ASSUME AnswersAssumption == Answers \in [Peers -> SUBSET AnswerKinds]
ASSUME DiskAssumption    == InitialDisk \in [Paths -> Contents \cup {None}]
ASSUME NoneAssumption    == None \notin Contents
ASSUME BoundAssumption   == MaxDownloads \in Nat

VARIABLES
  user,       \* the main thread: at its prompt, joining the thread, ended
  running,    \* DownloadManager::running
  downloads,  \* DownloadManager::downloads, the parts not shared with FilesDB
  peerDB,     \* for each file, the peers known to have it
  filesDB,    \* for each shared name, the entry of FilesDB
  disk,       \* the blocks of each path
  announced,  \* files this client told the tracker it seeds
  pc, pos, last, piece, ask,  \* the download thread
  called      \* history: how often on_download_complete ran for a download

thread == <<pc, pos, last, piece, ask>>
vars == <<user, running, downloads, peerDB, filesDB, disk, announced, thread, called>>

Part(f, path, have) ==
  [file |-> f, path |-> path, have |-> have, left |-> Range(PiecesOf[f]) \ have]

IsComplete(part) == part.left = {}

(* A PartFile of FilesDB; nothing reads what remains of it. *)
Entry(blocks, path, have) == [blocks |-> blocks, path |-> path, have |-> have]

(* get_piece_index(): the first block with that hash. *)
Index(blocks, p) == CHOOSE i \in DOMAIN blocks :
                      /\ blocks[i] = p
                      /\ \A k \in DOMAIN blocks : blocks[k] = p => i <= k

(* What a file reads as, up to its last block. *)
Blocks(content) ==
  [k \in {j \in 1..MaxPieces : \E m \in DOMAIN content : j <= m} |->
     IF k \in DOMAIN content THEN content[k] ELSE Zero]

(* Faulty variant: the file is truncated when it is opened. *)
WrittenAlone(content, i, p) == [k \in {i} |-> p]

(* write_piece_to_file() creates the file and leaves other blocks alone. *)
Written(content, i, p) ==
  LET old == IF content = None THEN <<>> ELSE content IN
  [k \in DOMAIN old \cup {i} |-> IF k = i THEN p ELSE old[k]]

Init ==
  /\ user = "active"
  /\ running = FALSE
  /\ downloads = <<>>
  /\ peerDB = [f \in Files |-> {}]
  /\ filesDB = [f \in Files |-> None]
  /\ disk = InitialDisk
  /\ announced = {}
  /\ pc = "none" /\ pos = 1 /\ last = 0 /\ piece = None /\ ask = {}
  /\ called = <<>>

-----------------------------------------------------------------------------
(* The main thread. *)

(* FilesDB::add_partfile(): an entry of that name stays. *)
AddPartFile(name, part) ==
  IF filesDB[name] = None THEN [filesDB EXCEPT ![name] = part] ELSE filesDB

(* Faulty variant: the test for an existing destination left out. *)
EnqueueOverExisting(f, path) ==
  /\ Len(downloads) < MaxDownloads
  /\ downloads' = Append(downloads, Part(f, path, {}))
  /\ called' = Append(called, 0)
  /\ filesDB' = IF downloads = <<>> THEN filesDB
                ELSE AddPartFile(f, Entry(PiecesOf[f], path, {}))

(* enqueue_download(): refused when the destination exists, which it does from
   the first piece that is written to it.  The first download is not entered into
   FilesDB, the others are, as parts of their own that the thread will not mark.
   The comparison of file_info pointers that should turn duplicates away never
   holds, since every reply is parsed into a new one. *)
Enqueue(f, path) ==
  IF disk[path] # None
  THEN UNCHANGED <<downloads, filesDB, called>>
  ELSE /\ Len(downloads) < MaxDownloads
       /\ downloads' = Append(downloads, Part(f, path, {}))
       /\ called' = Append(called, 0)
       /\ filesDB' = IF downloads = <<>> THEN filesDB
                     ELSE AddPartFile(f, Entry(PiecesOf[f], path, {}))

StartDownloads ==
  /\ running' = TRUE
  /\ pc' = IF running THEN pc ELSE "top"
  /\ UNCHANGED <<pos, last, piece, ask>>

(* The command download_file, when the tracker answers with the file and its
   seeders. *)
DownloadFile(f, seeders, path) ==
  /\ user = "active"
  /\ peerDB' = [peerDB EXCEPT ![f] = @ \cup seeders]
  /\ Enqueue(f, path)
  /\ StartDownloads
  /\ UNCHANGED <<user, disk, announced>>

(* The command upload_file: get_file_info() takes what is at the path, a download
   under way included.  The tracker is told whether or not FilesDB takes the
   entry. *)
UploadFile(path) ==
  LET name == NameOf[path]
      blocks == Blocks(disk[path]) IN
  /\ user = "active"
  /\ disk[path] # None
  /\ filesDB' = AddPartFile(name, Entry(blocks, path, Range(blocks)))
  /\ announced' = announced \cup {[name |-> name, blocks |-> blocks]}
  /\ UNCHANGED <<user, running, downloads, peerDB, disk, thread, called>>

(* quit: pause_downloads() stops the thread and joins it. *)
Quit ==
  /\ user = "active"
  /\ user' = IF running THEN "joining" ELSE "ended"
  /\ running' = FALSE
  /\ UNCHANGED <<downloads, peerDB, filesDB, disk, announced, thread, called>>

Join ==
  /\ user = "joining" /\ pc = "exited"
  /\ user' = "ended"
  /\ UNCHANGED <<running, downloads, peerDB, filesDB, disk, announced, thread, called>>

(* The server thread's answer to a `get' for piece p of the file shared as name, in
   any state; a file that is too short has no block there. *)
Refused == "refused"

Served(name, p) ==
  LET entry == filesDB[name]
      i == Index(entry.blocks, p) IN
  IF entry = None \/ p \notin entry.have THEN Refused
  ELSE IF disk[entry.path] = None \/ i \notin DOMAIN Blocks(disk[entry.path]) THEN None
  ELSE Blocks(disk[entry.path])[i]

-----------------------------------------------------------------------------
(* The download thread. *)

(* Faulty variants: the thread does not look at `running'; complete downloads
   are not passed over; a wrong piece is marked; the first peer without the piece
   ends the search; the piece stays among those missing; nobody is told. *)
BeginPassAnyway ==
  /\ pc = "top"
  /\ IF downloads = <<>>
     THEN pc' = "exited" /\ UNCHANGED <<pos, last>>
     ELSE pc' = "scan" /\ pos' = 1 /\ last' = Len(downloads)
  /\ UNCHANGED <<user, running, downloads, peerDB, filesDB, disk, announced,
                 piece, ask, called>>

SkipNothing ==
  /\ pc = "scan" /\ pos <= last /\ IsComplete(downloads[pos])
  /\ pc' = "ask" /\ ask' = {}
  /\ UNCHANGED <<user, running, downloads, peerDB, filesDB, disk, announced,
                 pos, last, piece, called>>

MissMarking(peer) ==
  /\ pc = "ask" /\ peer \in ask /\ "bad" \in Answers[peer]
  /\ ask' = ask \ {peer}
  /\ downloads' = [downloads EXCEPT ![pos].have = @ \cup {piece},
                                    ![pos].left = @ \ {piece}]
  /\ UNCHANGED <<user, running, peerDB, filesDB, disk, announced,
                 pc, pos, last, piece, called>>

MissGivingUp(peer) ==
  /\ pc = "ask" /\ peer \in ask /\ "bad" \in Answers[peer]
  /\ ask' = {}
  /\ UNCHANGED <<user, running, downloads, peerDB, filesDB, disk, announced,
                 pc, pos, last, piece, called>>

FetchStillMissing(peer) ==
  LET part == downloads[pos] IN
  /\ pc = "ask" /\ peer \in ask /\ "good" \in Answers[peer]
  /\ disk' = [disk EXCEPT ![part.path] = Written(@, Index(PiecesOf[part.file], piece), piece)]
  /\ downloads' = [downloads EXCEPT ![pos].have = @ \cup {piece}]
  /\ ask' = {}
  /\ UNCHANGED <<user, running, peerDB, filesDB, announced, pc, pos, last, piece, called>>

FinishUnreported ==
  /\ pc = "ask" /\ ask = {}
  /\ pos' = pos + 1
  /\ pc' = "scan"
  /\ UNCHANGED <<user, running, downloads, peerDB, filesDB, disk, announced,
                 last, piece, ask, called>>

(* The loop condition.  A thread that finds no download ends and leaves
   `running' as it is. *)
BeginPass ==
  /\ pc = "top"
  /\ IF ~running \/ downloads = <<>>
     THEN pc' = "exited" /\ UNCHANGED <<pos, last>>
     ELSE pc' = "scan" /\ pos' = 1 /\ last' = Len(downloads)
  /\ UNCHANGED <<user, running, downloads, peerDB, filesDB, disk, announced,
                 piece, ask, called>>

EndPass ==
  /\ pc = "scan" /\ pos > last
  /\ pc' = "top"
  /\ UNCHANGED <<user, running, downloads, peerDB, filesDB, disk, announced,
                 pos, last, piece, ask, called>>

Skip ==
  /\ pc = "scan" /\ pos <= last /\ IsComplete(downloads[pos])
  /\ pos' = pos + 1
  /\ UNCHANGED <<user, running, downloads, peerDB, filesDB, disk, announced,
                 pc, last, piece, ask, called>>

(* The first piece of an unordered set, and a copy of the peers known now. *)
Choose ==
  /\ pc = "scan" /\ pos <= last
  /\ \E p \in downloads[pos].left : piece' = p
  /\ ask' = peerDB[downloads[pos].file]
  /\ pc' = "ask"
  /\ UNCHANGED <<user, running, downloads, peerDB, filesDB, disk, announced,
                 pos, last, called>>

(* A valid piece is written at its index and marked in this download. *)
Fetch(peer) ==
  LET part == downloads[pos] IN
  /\ pc = "ask" /\ peer \in ask /\ "good" \in Answers[peer]
  /\ disk' = [disk EXCEPT ![part.path] = Written(@, Index(PiecesOf[part.file], piece), piece)]
  /\ downloads' = [downloads EXCEPT ![pos].have = @ \cup {piece},
                                    ![pos].left = @ \ {piece}]
  /\ ask' = {}
  /\ UNCHANGED <<user, running, peerDB, filesDB, announced, pc, pos, last, piece, called>>

Miss(peer) ==
  /\ pc = "ask" /\ peer \in ask /\ "bad" \in Answers[peer]
  /\ ask' = ask \ {peer}
  /\ UNCHANGED <<user, running, downloads, peerDB, filesDB, disk, announced,
                 pc, pos, last, piece, called>>

(* An exception that leaves the thread's function ends the process. *)
Die(peer) ==
  /\ pc = "ask" /\ peer \in ask /\ "reset" \in Answers[peer]
  /\ pc' = "exited" /\ user' = "ended" /\ running' = FALSE
  /\ UNCHANGED <<downloads, peerDB, filesDB, disk, announced,
                 pos, last, piece, ask, called>>

(* receive_data() has no timeout: the thread waits for good, and whoever joins
   it. *)
Hang(peer) ==
  /\ pc = "ask" /\ peer \in ask /\ "silent" \in Answers[peer]
  /\ pc' = "waiting"
  /\ UNCHANGED <<user, running, downloads, peerDB, filesDB, disk, announced,
                 pos, last, piece, ask, called>>

(* No peer is left to ask, or one had the piece. *)
Finish ==
  /\ pc = "ask" /\ ask = {}
  /\ called' = IF IsComplete(downloads[pos]) THEN [called EXCEPT ![pos] = @ + 1]
               ELSE called
  /\ pos' = pos + 1
  /\ pc' = "scan"
  /\ UNCHANGED <<user, running, downloads, peerDB, filesDB, disk, announced,
                 last, piece, ask>>

ThreadStep ==
  /\ user # "ended"
  /\ \/ BeginPass \/ EndPass \/ Skip \/ Choose \/ Finish
     \/ \E peer \in Peers : Fetch(peer)
     \/ \E peer \in Peers : Miss(peer)
     \/ \E peer \in Peers : Die(peer)
     \/ \E peer \in Peers : Hang(peer)

Next ==
  \/ \E f \in Files, seeders \in SUBSET Peers, path \in Paths :
       DownloadFile(f, seeders, path)
  \/ \E path \in Paths : UploadFile(path)
  \/ Quit
  \/ Join
  \/ ThreadStep

Spec == Init /\ [][Next]_vars

(* Both threads keep running, and a peer that is asked answers unless it is one
   that may be silent.  The user need not do anything. *)
FairSpec == Spec /\ WF_vars(ThreadStep) /\ WF_vars(Join)

-----------------------------------------------------------------------------
(* Type invariant: besides the types, a download's pieces are split into those
   it has and those it lacks. *)
PartType == [file : Files, path : Paths, have : SUBSET Pieces, left : SUBSET Pieces]
EntryType == [blocks : Contents, path : Paths, have : SUBSET Pieces]

TypeOK ==
  /\ user \in {"active", "joining", "ended"}
  /\ running \in BOOLEAN
  /\ downloads \in Seq(PartType)
  /\ \A i \in DOMAIN downloads :
       LET d == downloads[i] IN
       d.have \cup d.left = Range(PiecesOf[d.file]) /\ d.have \cap d.left = {}
  /\ peerDB \in [Files -> SUBSET Peers]
  /\ filesDB \in [Files -> EntryType \cup {None}]
  /\ disk \in [Paths -> Contents \cup {None}]
  /\ announced \subseteq [name : Files, blocks : Contents]
  /\ pc \in {"none", "top", "scan", "ask", "waiting", "exited"}
  /\ pos \in Nat /\ last \in 0..Len(downloads)
  /\ piece \in Pieces \cup {None} /\ ask \subseteq Peers
  /\ called \in Seq(Nat) /\ Len(called) = Len(downloads)

(* Of the downloads to a path, which are all accepted before the first piece is
   written to it, every one is of the same file. *)
OneFile(path) ==
  \A i, k \in DOMAIN downloads :
    downloads[i].path = path /\ downloads[k].path = path
      => downloads[i].file = downloads[k].file

(* The blocks of a file without those that repeat an earlier one. *)
FirstBlocks(f) ==
  [k \in {j \in DOMAIN PiecesOf[f] : Index(PiecesOf[f], PiecesOf[f][j]) = j} |->
     PiecesOf[f][k]]

(* A download that counts as complete has every block in its place, which is the
   whole file when no two blocks are equal, unless downloads of different files
   go to its path; and nothing else is in the file, whichever of several downloads
   wrote a piece, in whatever order. *)
CompleteOnDisk ==
  \A i \in DOMAIN downloads :
    LET d == downloads[i] IN
    IsComplete(d) /\ d.have # {} /\ OneFile(d.path) => disk[d.path] = FirstBlocks(d.file)

(* on_download_complete is called at most once for a download, and only when the
   whole file is there. *)
NotifiedOnce ==
  \A i \in DOMAIN downloads :
    called[i] <= 1 /\ (called[i] = 1 => IsComplete(downloads[i]))

(* A piece that FilesDB claims, be it of a file shared half-written, is served as
   it was, unless it is the hole in such a file or downloads of different files go
   to the path: no write of the download thread takes it away. *)
ServedPieceValid ==
  \A name \in {n \in Files : filesDB[n] # None} :
    OneFile(filesDB[name].path) =>
      \A p \in filesDB[name].have \ {Zero} : Served(name, p) = p

(* process_request() has checked that "the piece exists" when it reads it. *)
ClaimedPieceServed ==
  \A name \in {n \in Files : filesDB[n] # None} :
    \A p \in filesDB[name].have : Served(name, p) = p

(* A client that shares a file it has as a whole can serve every piece of it. *)
AnnouncedServable ==
  \A a \in announced : a.blocks = PiecesOf[a.name] =>
    filesDB[a.name] # None /\ Range(a.blocks) \subseteq filesDB[a.name].have

(* What a complete download has on the disk is left alone, also by other downloads
   of the same file to the same path that are still under way. *)
FinishedFilesStay ==
  [][\A i \in DOMAIN downloads :
       IsComplete(downloads[i]) /\ OneFile(downloads[i].path)
         => disk'[downloads[i].path] = disk[downloads[i].path]]_vars

(* A file that the user was told to seed is never written to again. *)
FinishedIsFinal ==
  [][\A i \in DOMAIN downloads :
       called[i] = 1 => disk'[downloads[i].path] = disk[downloads[i].path]]_vars

(* Who downloads a file gets the file. *)
CompleteIsWhole ==
  \A i \in DOMAIN downloads :
    called[i] = 1 => disk[downloads[i].path] = PiecesOf[downloads[i].file]

(* Whether download i exists and is complete. *)
Complete(i) == i \in DOMAIN downloads /\ IsComplete(downloads[i])

(* Honest peers answer with the piece and nothing else. *)
Honest == {p \in Peers : Answers[p] = {"good"}}

(* The thread waits for a peer that stays silent, which nothing ends. *)
Waiting == pc = "waiting"

(* The thread found nothing to download and ended, but counts as running. *)
Abandoned == pc = "exited" /\ running

(* Every download of which an honest peer is known gets complete, however many
   others wait for pieces nobody has, unless the user quits, the client dies, or
   one of the two ways of getting stuck above is met. *)
DownloadsComplete ==
  \A i \in 1..MaxDownloads :
    (i \in DOMAIN downloads /\ peerDB[downloads[i].file] \cap Honest # {})
      ~> (user # "active" \/ Complete(i) \/ Waiting \/ Abandoned)

(* The same without the second exception: what is enqueued will be downloaded. *)
EnqueuedIsDownloaded ==
  \A i \in 1..MaxDownloads :
    (i \in DOMAIN downloads /\ peerDB[downloads[i].file] \cap Honest # {})
      ~> (user # "active" \/ Complete(i) \/ Waiting)

(* A complete download of a file that has pieces is reported, unless the user quits
   or the client dies first: the thread gets from the last piece to the report
   whoever else stays silent. *)
CompletionReported ==
  \A i \in 1..MaxDownloads :
    (Complete(i) /\ downloads[i].have # {})
      ~> (user # "active" \/ (i \in DOMAIN called /\ called[i] = 1))

(* The same for every file. *)
EveryCompletionReported ==
  \A i \in 1..MaxDownloads :
    Complete(i) ~> (user # "active" \/ Waiting \/ (i \in DOMAIN called /\ called[i] = 1))

(* quit ends the client in the midst of any number of unfinished downloads, unless
   the thread it joins waits for a silent peer. *)
QuitEnds == (user = "joining") ~> (user = "ended" \/ Waiting)
=============================================================================
