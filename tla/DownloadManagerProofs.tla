------------------------ MODULE DownloadManagerProofs ------------------------
(***************************************************************************)
(* What is complete is on the disk, is reported once, stays, and the       *)
(* pieces that are claimed are served: for any number of files, pieces,    *)
(* peers, paths and downloads, whatever is on the disk at first, whatever  *)
(* peers answer and whatever the user enqueues and shares.  What the code  *)
(* does not keep apart, downloads of different files to one path, is an    *)
(* exception that the properties themselves name.                          *)
(***************************************************************************)
EXTENDS DownloadManager, WellFoundedInduction, TLAPS

(* Piece p is where it is looked for in a file whose blocks are these. *)
HoldsIn(content, blocks, p) ==
  /\ content # None
  /\ Index(blocks, p) \in DOMAIN content
  /\ content[Index(blocks, p)] = p

(* The content of a path is part of file f. *)
Agrees(content, f) ==
  content = None \/
    \A k \in DOMAIN content : k \in DOMAIN FirstBlocks(f) /\ content[k] = FirstBlocks(f)[k]

(* The inductive invariant: a path that only downloads of one file go to holds part
   of that file, with the pieces each of them has; the thread, when it asks, is at a
   download that was not reported, and lacks the piece it asks for; and the pieces
   an entry of FilesDB claims lie where they are looked for. *)
OnDisk ==
  \A i \in DOMAIN downloads : OneFile(downloads[i].path) =>
    \A p \in downloads[i].have :
      HoldsIn(disk[downloads[i].path], PiecesOf[downloads[i].file], p)

Consistent ==
  \A i \in DOMAIN downloads : OneFile(downloads[i].path) =>
    Agrees(disk[downloads[i].path], downloads[i].file)

Asking ==
  /\ pos >= 1
  /\ pc \in {"ask", "waiting"} => pos <= last
  /\ pc = "ask" => called[pos] = 0
  /\ pc = "ask" /\ ask # {} => piece \in downloads[pos].left

Entries ==
  \A name \in Files : filesDB[name] # None /\ OneFile(filesDB[name].path) =>
    \A p \in filesDB[name].have \ {Zero} :
      HoldsIn(disk[filesDB[name].path], filesDB[name].blocks, p)

IInv == TypeOK /\ OnDisk /\ Consistent /\ Asking /\ Entries /\ NotifiedOnce

-----------------------------------------------------------------------------
(* Facts about the operators. *)

LEMMA FileFacts ==
  ASSUME NEW f \in Files
  PROVE  /\ PiecesOf[f] \in Seq(Pieces)
         /\ DOMAIN PiecesOf[f] = 1..Len(PiecesOf[f])
         /\ Len(PiecesOf[f]) \in Nat /\ Len(PiecesOf[f]) <= MaxPieces
         /\ DOMAIN PiecesOf[f] \subseteq 1..MaxPieces
         /\ Range(PiecesOf[f]) \subseteq Pieces
<1>1. PiecesOf[f] \in Seq(Pieces) /\ Len(PiecesOf[f]) <= MaxPieces
  BY FilesAssumption
<1>2. MaxPieces \in Nat
  BY FilesAssumption
<1>3. DOMAIN PiecesOf[f] = 1..Len(PiecesOf[f]) /\ Len(PiecesOf[f]) \in Nat
  BY <1>1
<1>4. Range(PiecesOf[f]) \subseteq Pieces
  BY DEF Pieces
<1>5. QED
  BY <1>1, <1>2, <1>3, <1>4

LEMMA Least ==
  ASSUME NEW S \in SUBSET Nat, S # {}
  PROVE  \E i \in S : \A k \in S : i <= k
<1> DEFINE R == {ss \in Nat \X Nat : ss[1] < ss[2]}
<1>1. IsWellFoundedOn(R, Nat)
  BY NatLessThanWellFounded, Zenon DEF OpToRel
<1> HIDE DEF R
<1>2. PICK i \in S : \A k \in S : ~(<<k, i>> \in R)
  BY <1>1, WFMin, Zenon
<1>3. ASSUME NEW k \in S, k < i PROVE FALSE
  BY <1>2, <1>3 DEF R
<1>4. QED
  BY <1>3

(* Of equal blocks, the first is meant. *)
LEMMA IndexOf ==
  ASSUME NEW blocks, DOMAIN blocks \subseteq Nat, NEW p \in Range(blocks)
  PROVE  Index(blocks, p) \in DOMAIN blocks /\ blocks[Index(blocks, p)] = p
<1> DEFINE S == {k \in DOMAIN blocks : blocks[k] = p}
<1>1. S # {} /\ S \in SUBSET Nat
  BY DEF Range
<1>2. PICK i \in S : \A k \in S : i <= k
  BY <1>1, Least
<1>3. QED
  BY <1>2 DEF Index

LEMMA IndexInFile ==
  ASSUME NEW f \in Files, NEW p \in Range(PiecesOf[f])
  PROVE  /\ Index(PiecesOf[f], p) \in DOMAIN PiecesOf[f]
         /\ Index(PiecesOf[f], p) \in 1..MaxPieces
         /\ PiecesOf[f][Index(PiecesOf[f], p)] = p
         /\ Index(PiecesOf[f], p) \in DOMAIN FirstBlocks(f)
         /\ FirstBlocks(f)[Index(PiecesOf[f], p)] = p
<1>1. DOMAIN PiecesOf[f] \subseteq Nat /\ DOMAIN PiecesOf[f] \subseteq 1..MaxPieces
  BY FileFacts
<1>2. Index(PiecesOf[f], p) \in DOMAIN PiecesOf[f] /\ PiecesOf[f][Index(PiecesOf[f], p)] = p
  BY <1>1, IndexOf
<1>3. QED
  BY <1>1, <1>2 DEF FirstBlocks

(* Contents are functions on blocks' numbers, what they read as among them. *)
LEMMA ContentFacts ==
  ASSUME NEW content \in Contents
  PROVE  /\ DOMAIN content \subseteq 1..MaxPieces
         /\ content = [k \in DOMAIN content |-> content[k]]
         /\ \A k \in DOMAIN content : content[k] \in Pieces
         /\ content # None
<1>1. PICK S \in SUBSET (1..MaxPieces) : content \in [S -> Pieces]
  BY DEF Contents
<1>2. QED
  BY <1>1, NoneAssumption

LEMMA BlocksFacts ==
  ASSUME NEW content \in Contents
  PROVE  /\ Blocks(content) \in Contents
         /\ DOMAIN Blocks(content) \subseteq Nat
         /\ Range(Blocks(content)) \subseteq Pieces
         /\ \A k \in DOMAIN content :
              k \in DOMAIN Blocks(content) /\ Blocks(content)[k] = content[k]
         /\ \A k \in DOMAIN Blocks(content) :
              Blocks(content)[k] # Zero
                => k \in DOMAIN content /\ Blocks(content)[k] = content[k]
<1> DEFINE D == {j \in 1..MaxPieces : \E m \in DOMAIN content : j <= m}
<1>1. MaxPieces \in Nat
  BY FilesAssumption
<1>2. DOMAIN content \subseteq 1..MaxPieces /\ \A k \in DOMAIN content : content[k] \in Pieces
  BY ContentFacts
<1>3. Blocks(content) = [k \in D |-> IF k \in DOMAIN content THEN content[k] ELSE Zero]
  BY DEF Blocks
<1>4. DOMAIN content \subseteq D
  BY <1>1, <1>2
<1>5. D \in SUBSET (1..MaxPieces) /\ D \subseteq Nat
  BY <1>1
<1> HIDE DEF D
<1>6. \A k \in D : (IF k \in DOMAIN content THEN content[k] ELSE Zero) \in Pieces
  BY <1>2 DEF Pieces
<1>7. Blocks(content) \in [D -> Pieces]
  BY <1>3, <1>6
<1>8. Blocks(content) \in Contents
  BY <1>5, <1>7 DEF Contents
<1>9. Range(Blocks(content)) \subseteq Pieces
  BY <1>7 DEF Range
<1>10. QED
  BY <1>3, <1>4, <1>5, <1>7, <1>8, <1>9

LEMMA FileIsContent == ASSUME NEW f \in Files PROVE PiecesOf[f] \in Contents
<1>1. PiecesOf[f] \in [1..Len(PiecesOf[f]) -> Pieces]
  BY FileFacts
<1>2. 1..Len(PiecesOf[f]) \in SUBSET (1..MaxPieces)
  BY FileFacts
<1>3. QED
  BY <1>1, <1>2 DEF Contents

(* The content new is old with block i written. *)
Adds(new, old, i, p) ==
  /\ i \in DOMAIN new /\ new[i] = p
  /\ \A k \in DOMAIN new \ {i} : old # None /\ k \in DOMAIN old /\ new[k] = old[k]
  /\ old # None => /\ DOMAIN old \subseteq DOMAIN new
                   /\ \A k \in DOMAIN old \ {i} : new[k] = old[k]

LEMMA WrittenFacts ==
  ASSUME NEW content \in Contents \cup {None}, NEW i \in 1..MaxPieces, NEW p \in Pieces
  PROVE  Written(content, i, p) \in Contents /\ Adds(Written(content, i, p), content, i, p)
<1>1. CASE content = None
  <2>1. Written(content, i, p) = [k \in {i} |-> p]
    BY <1>1 DEF Written
  <2>2. [k \in {i} |-> p] \in [{i} -> Pieces] /\ {i} \in SUBSET (1..MaxPieces)
    OBVIOUS
  <2>3. Written(content, i, p) \in Contents
    BY <2>1, <2>2 DEF Contents
  <2>4. QED
    BY <1>1, <2>1, <2>3 DEF Adds
<1>2. CASE content \in Contents
  <2>1. /\ DOMAIN content \subseteq 1..MaxPieces /\ content # None
        /\ \A k \in DOMAIN content : content[k] \in Pieces
    BY <1>2, ContentFacts
  <2> DEFINE D == DOMAIN content \cup {i}
  <2>2. Written(content, i, p) = [k \in D |-> IF k = i THEN p ELSE content[k]]
    BY <2>1 DEF Written
  <2>3. Written(content, i, p) \in [D -> Pieces] /\ D \in SUBSET (1..MaxPieces)
    BY <2>1, <2>2
  <2>4. Written(content, i, p) \in Contents
    BY <2>3 DEF Contents
  <2>5. QED
    BY <2>1, <2>2, <2>4 DEF Adds
<1>3. QED
  BY <1>1, <1>2

(* A piece of file f written to part of f leaves it a part of f, with the pieces
   that were there. *)
LEMMA WriteAgrees ==
  ASSUME NEW f \in Files, NEW p \in Range(PiecesOf[f]), NEW content \in Contents \cup {None},
         Agrees(content, f)
  PROVE  LET new == Written(content, Index(PiecesOf[f], p), p) IN
         /\ Agrees(new, f)
         /\ HoldsIn(new, PiecesOf[f], p)
         /\ \A blocks, q : HoldsIn(content, blocks, q) => HoldsIn(new, blocks, q)
         /\ HoldsIn(content, PiecesOf[f], p) => new = content
<1> DEFINE i == Index(PiecesOf[f], p)
           new == Written(content, i, p)
<1>1. /\ i \in 1..MaxPieces /\ i \in DOMAIN FirstBlocks(f) /\ FirstBlocks(f)[i] = p
      /\ p \in Pieces
  BY IndexInFile, FileFacts
<1> HIDE DEF i
<1>2. new \in Contents /\ Adds(new, content, i, p)
  BY <1>1, WrittenFacts
<1>3. new # None /\ new = [k \in DOMAIN new |-> new[k]]
  BY <1>2, ContentFacts
<1> HIDE DEF new
<1>4. content # None => \A k \in DOMAIN content : new[k] = content[k] \/ (k = i /\ content[k] = p)
  BY <1>1, <1>2 DEF Agrees, Adds
<1>5. content # None => \A k \in DOMAIN content : k \in DOMAIN new /\ new[k] = content[k]
  BY <1>2, <1>4 DEF Adds
<1>6. Agrees(new, f)
  BY <1>1, <1>2 DEF Agrees, Adds
<1>7. HoldsIn(new, PiecesOf[f], p)
  BY <1>2, <1>3 DEF HoldsIn, Adds, i
<1>8. ASSUME NEW blocks, NEW q, HoldsIn(content, blocks, q) PROVE HoldsIn(new, blocks, q)
  BY <1>3, <1>5, <1>8 DEF HoldsIn
<1>9. ASSUME HoldsIn(content, PiecesOf[f], p) PROVE new = content
  <2>1. content # None /\ i \in DOMAIN content /\ content \in Contents
    BY <1>9 DEF HoldsIn, i
  <2>2. DOMAIN new = DOMAIN content
    BY <1>2, <1>5, <2>1 DEF Adds
  <2>3. content = [k \in DOMAIN content |-> content[k]]
    BY <2>1, ContentFacts
  <2>4. QED
    BY <1>3, <1>5, <2>1, <2>2, <2>3
<1>10. QED
  BY <1>6, <1>7, <1>8, <1>9 DEF new, i

(* The properties of a state with the invariant. *)
LEMMA InvariantMeans == ASSUME IInv PROVE CompleteOnDisk /\ ServedPieceValid
<1>1. disk \in [Paths -> Contents \cup {None}]
  BY DEF IInv, TypeOK
<1>2. CompleteOnDisk
  <2> SUFFICES ASSUME NEW i \in DOMAIN downloads, IsComplete(downloads[i]),
                      downloads[i].have # {}, OneFile(downloads[i].path)
               PROVE  disk[downloads[i].path] = FirstBlocks(downloads[i].file)
    BY DEF CompleteOnDisk
  <2> DEFINE d == downloads[i]
             f == d.file
             content == disk[d.path]
  <2>1. d \in PartType /\ d.have \cup d.left = Range(PiecesOf[f])
    BY DEF IInv, TypeOK
  <2>2. f \in Files /\ d.path \in Paths /\ d.have = Range(PiecesOf[f])
    BY <2>1 DEF PartType, IsComplete
  <2>3. \A p \in Range(PiecesOf[f]) : HoldsIn(content, PiecesOf[f], p)
    BY <2>2 DEF IInv, OnDisk
  <2>4. Agrees(content, f)
    BY DEF IInv, Consistent
  <2>5. content # None
    BY <2>2, <2>3 DEF HoldsIn
  <2>6. content \in Contents
    BY <1>1, <2>2, <2>5
  <2> HIDE DEF content, f
  <2>7. content = [k \in DOMAIN content |-> content[k]]
    BY <2>6, ContentFacts
  <2>8. \A k \in DOMAIN content : k \in DOMAIN FirstBlocks(f) /\ content[k] = FirstBlocks(f)[k]
    BY <2>4, <2>5 DEF Agrees
  <2>9. ASSUME NEW k \in DOMAIN FirstBlocks(f)
        PROVE  k \in DOMAIN content
    <3>1. k \in DOMAIN PiecesOf[f] /\ Index(PiecesOf[f], PiecesOf[f][k]) = k
      BY DEF FirstBlocks
    <3>2. PiecesOf[f][k] \in Range(PiecesOf[f])
      BY <3>1 DEF Range
    <3>3. QED
      BY <2>3, <3>1, <3>2 DEF HoldsIn
  <2>10. FirstBlocks(f) = [k \in DOMAIN FirstBlocks(f) |-> FirstBlocks(f)[k]]
    BY DEF FirstBlocks
  <2>11. DOMAIN content = DOMAIN FirstBlocks(f)
    BY <2>8, <2>9
  <2>12. content = FirstBlocks(f)
    BY <2>7, <2>8, <2>10, <2>11
  <2>13. QED
    BY <2>12 DEF content, f
<1>3. ServedPieceValid
  <2> SUFFICES ASSUME NEW name \in Files, filesDB[name] # None, OneFile(filesDB[name].path),
                      NEW p \in filesDB[name].have \ {Zero}
               PROVE  Served(name, p) = p
    BY DEF ServedPieceValid
  <2> DEFINE e == filesDB[name]
             content == disk[e.path]
             i == Index(e.blocks, p)
  <2>1. HoldsIn(content, e.blocks, p)
    BY DEF IInv, Entries
  <2>2. e \in EntryType
    BY DEF IInv, TypeOK
  <2>3. content \in Contents
    BY <1>1, <2>1, <2>2 DEF HoldsIn, EntryType
  <2>4. i \in DOMAIN content /\ content[i] = p /\ content # None
    BY <2>1 DEF HoldsIn
  <2>5. i \in DOMAIN Blocks(content) /\ Blocks(content)[i] = p
    BY <2>3, <2>4, BlocksFacts
  <2>6. QED
    BY <2>4, <2>5 DEF Served
<1>4. QED
  BY <1>2, <1>3

-----------------------------------------------------------------------------
(* Every step keeps the invariant. *)

LEMMA InitInv == ASSUME Init PROVE IInv
<1>1. TypeOK
  <2>1. downloads = <<>> /\ called = <<>>
    BY DEF Init
  <2>2. downloads \in Seq(PartType) /\ called \in Seq(Nat)
        /\ Len(downloads) = 0 /\ Len(called) = 0
    BY <2>1
  <2>3. DOMAIN downloads = {} /\ last \in 0..Len(downloads) /\ pos \in Nat
    BY <2>1, <2>2 DEF Init
  <2>4. peerDB \in [Files -> SUBSET Peers] /\ filesDB \in [Files -> EntryType \cup {None}]
    BY DEF Init
  <2>5. disk \in [Paths -> Contents \cup {None}]
    BY DiskAssumption DEF Init
  <2>6. QED
    BY <2>2, <2>3, <2>4, <2>5 DEF Init, TypeOK
<1>2. QED
  BY <1>1 DEF Init, IInv, OnDisk, Consistent, Asking, Entries, NotifiedOnce

(* Steps that touch neither downloads nor files. *)
LEMMA SameFiles ==
  ASSUME IInv, UNCHANGED <<downloads, filesDB, disk>>
  PROVE  OnDisk' /\ Consistent' /\ Entries'
<1>1. OnDisk'
  BY DEF IInv, OnDisk, OneFile
<1>2. Consistent'
  BY DEF IInv, Consistent, OneFile
<1>3. Entries'
  BY DEF IInv, Entries, OneFile
<1>4. QED
  BY <1>1, <1>2, <1>3

LEMMA SameReports ==
  ASSUME IInv, UNCHANGED <<downloads, called>> PROVE NotifiedOnce'
BY DEF IInv, NotifiedOnce, IsComplete

(* Downloads are only added: if all to a path are of one file now, they were so. *)
LEMMA OneFileBefore ==
  ASSUME DOMAIN downloads \subseteq DOMAIN downloads',
         \A i \in DOMAIN downloads : /\ downloads'[i].path = downloads[i].path
                                    /\ downloads'[i].file = downloads[i].file,
         NEW path, OneFile(path)'
  PROVE  OneFile(path)
<1> SUFFICES ASSUME NEW i \in DOMAIN downloads, NEW k \in DOMAIN downloads,
                    downloads[i].path = path, downloads[k].path = path
             PROVE  downloads[i].file = downloads[k].file
  BY DEF OneFile
<1>1. i \in DOMAIN downloads' /\ k \in DOMAIN downloads'
  OBVIOUS
<1>2. downloads'[i].path = path /\ downloads'[k].path = path
  OBVIOUS
<1>3. downloads'[i].file = downloads'[k].file
  BY <1>1, <1>2 DEF OneFile
<1>4. QED
  BY <1>3

LEMMA ControlKeeps ==
  ASSUME IInv,
         Quit \/ Join \/ BeginPass \/ EndPass \/ Skip \/ Choose
           \/ \E peer \in Peers : Miss(peer) \/ Die(peer) \/ Hang(peer)
  PROVE  IInv'
<1>1. UNCHANGED <<downloads, filesDB, disk, called>>
  BY DEF Quit, Join, BeginPass, EndPass, Skip, Choose, Miss, Die, Hang, thread
<1>2. TypeOK /\ Asking
  BY DEF IInv
<1>3. TypeOK' /\ Asking'
  <2>1. CASE Quit \/ Join
    BY <1>2, <2>1 DEF Quit, Join, TypeOK, Asking, thread
  <2>2. CASE BeginPass
    BY <1>2, <2>2 DEF BeginPass, TypeOK, Asking
  <2>3. CASE EndPass \/ Skip
    <3>1. pos' \in {pos, pos + 1} /\ pos' \in Nat /\ pc' \in {"top", "scan"}
      BY <1>2, <2>3 DEF EndPass, Skip, TypeOK
    <3>2. UNCHANGED <<user, running, downloads, peerDB, filesDB, disk, announced,
                      last, piece, ask, called>>
      BY <2>3 DEF EndPass, Skip
    <3>3. TypeOK'
      BY <1>2, <3>1, <3>2 DEF TypeOK
    <3>4. pos' >= 1
      BY <1>2, <3>1 DEF TypeOK, Asking
    <3>5. QED
      BY <3>1, <3>3, <3>4 DEF Asking
  <2>4. CASE Choose
    <3>1. pos \in DOMAIN downloads
      BY <1>2, <2>4 DEF Choose, TypeOK, Asking
    <3>2. downloads[pos] \in PartType
      BY <1>2, <3>1 DEF TypeOK
    <3>3. piece' \in downloads[pos].left
      BY <2>4 DEF Choose
    <3>4. TypeOK'
      BY <1>2, <2>4, <3>2, <3>3 DEF Choose, TypeOK, PartType
    <3>5. called[pos] = 0
      <4>1. ~IsComplete(downloads[pos])
        BY <3>3 DEF IsComplete
      <4>2. called[pos] <= 1 /\ called[pos] # 1
        BY <3>1, <4>1 DEF IInv, NotifiedOnce
      <4>3. called[pos] \in Nat
        BY <1>2, <3>1 DEF TypeOK
      <4>4. QED
        BY <4>2, <4>3
    <3>6. QED
      BY <1>2, <2>4, <3>3, <3>4, <3>5 DEF Choose, Asking
  <2>5. CASE \E peer \in Peers : Miss(peer) \/ Die(peer) \/ Hang(peer)
    BY <1>2, <2>5 DEF Miss, Die, Hang, TypeOK, Asking
  <2>6. QED
    BY <2>1, <2>2, <2>3, <2>4, <2>5
<1>4. QED
  BY <1>1, <1>3, SameFiles, SameReports DEF IInv

(* A download is reported when the thread is done with it and leaves it. *)
LEMMA FinishKeeps == ASSUME IInv, Finish PROVE IInv'
<1>1. pos \in DOMAIN downloads /\ called[pos] = 0
  BY DEF IInv, TypeOK, Asking, Finish
<1>2. TypeOK'
  BY <1>1 DEF IInv, TypeOK, Finish
<1>3. OnDisk' /\ Consistent' /\ Entries'
  BY SameFiles DEF Finish
<1>4. Asking'
  BY DEF IInv, TypeOK, Asking, Finish
<1>5. NotifiedOnce'
  <2>1. called \in Seq(Nat) /\ Len(called) = Len(downloads)
    BY DEF IInv, TypeOK
  <2>2. NotifiedOnce
    BY DEF IInv
  <2>3. QED
    BY <1>1, <2>1, <2>2 DEF Finish, NotifiedOnce, IsComplete
<1>6. QED
  BY <1>2, <1>3, <1>4, <1>5 DEF IInv

(* What a fetched piece changes: one download, and a block of its path. *)
LEMMA FetchChanges ==
  ASSUME IInv, NEW peer \in Peers, Fetch(peer)
  PROVE  LET d == downloads[pos]
             new == [d EXCEPT !.have = @ \cup {piece}, !.left = @ \ {piece}]
         IN
         /\ pos \in DOMAIN downloads /\ d \in PartType /\ d.path \in Paths /\ d.file \in Files
         /\ piece \in d.left /\ piece \in Range(PiecesOf[d.file]) /\ piece \in Pieces
         /\ new \in PartType
         /\ downloads' = [downloads EXCEPT ![pos] = new]
         /\ disk \in [Paths -> Contents \cup {None}]
         /\ disk' = [disk EXCEPT ![d.path] =
                       Written(disk[d.path], Index(PiecesOf[d.file], piece), piece)]
<1> DEFINE d == downloads[pos]
           new == [d EXCEPT !.have = @ \cup {piece}, !.left = @ \ {piece}]
<1>1. pos \in DOMAIN downloads
  BY DEF IInv, TypeOK, Asking, Fetch
<1>2. d \in PartType /\ disk \in [Paths -> Contents \cup {None}]
  BY <1>1 DEF IInv, TypeOK
<1>3. piece \in d.left
  BY DEF IInv, Asking, Fetch
<1>4. piece \in Range(PiecesOf[d.file]) /\ piece \in Pieces
  BY <1>1, <1>2, <1>3 DEF IInv, TypeOK, PartType
<1>5. new \in PartType
  BY <1>2, <1>4 DEF PartType
<1>6. downloads' = [downloads EXCEPT ![pos] = new]
  BY <1>1, <1>2 DEF Fetch, PartType
<1>7. d.path \in Paths /\ d.file \in Files
  BY <1>2 DEF PartType
<1>8. disk' = [disk EXCEPT ![d.path] =
                Written(disk[d.path], Index(PiecesOf[d.file], piece), piece)]
  BY DEF Fetch
<1>9. QED
  BY <1>1, <1>2, <1>3, <1>4, <1>5, <1>6, <1>7, <1>8

(* Where the downloads to a path are of one file, a fetched piece adds to what is
   there and takes nothing away; what is there as a whole is left alone. *)
LEMMA FetchAdds ==
  ASSUME IInv, NEW peer \in Peers, Fetch(peer), NEW x \in Paths, OneFile(x)
  PROVE  /\ \A blocks, q : HoldsIn(disk[x], blocks, q) => HoldsIn(disk'[x], blocks, q)
         /\ x = downloads[pos].path =>
              /\ Agrees(disk'[x], downloads[pos].file)
              /\ HoldsIn(disk'[x], PiecesOf[downloads[pos].file], piece)
              /\ HoldsIn(disk[x], PiecesOf[downloads[pos].file], piece) => disk'[x] = disk[x]
<1>1. PICK d : /\ d = downloads[pos] /\ pos \in DOMAIN downloads
               /\ d.path \in Paths /\ d.file \in Files
               /\ piece \in Range(PiecesOf[d.file])
               /\ disk \in [Paths -> Contents \cup {None}]
               /\ disk' = [disk EXCEPT ![d.path] =
                             Written(disk[d.path], Index(PiecesOf[d.file], piece), piece)]
  BY FetchChanges
<1>2. CASE x = d.path
  <2>1. Agrees(disk[x], d.file)
    BY <1>1, <1>2 DEF IInv, Consistent
  <2>2. disk[x] \in Contents \cup {None}
    BY <1>1
  <2>3. disk'[x] = Written(disk[x], Index(PiecesOf[d.file], piece), piece)
    BY <1>1, <1>2
  <2>4. /\ Agrees(disk'[x], d.file)
        /\ HoldsIn(disk'[x], PiecesOf[d.file], piece)
        /\ \A blocks, q : HoldsIn(disk[x], blocks, q) => HoldsIn(disk'[x], blocks, q)
        /\ HoldsIn(disk[x], PiecesOf[d.file], piece) => disk'[x] = disk[x]
    BY <1>1, <2>1, <2>2, <2>3, WriteAgrees
  <2>5. QED
    BY <1>1, <2>4
<1>3. CASE x # d.path
  BY <1>1, <1>3
<1>4. QED
  BY <1>2, <1>3

LEMMA FetchKeeps ==
  ASSUME IInv, NEW peer \in Peers, Fetch(peer) PROVE IInv'
<1> DEFINE d == downloads[pos]
           new == [d EXCEPT !.have = @ \cup {piece}, !.left = @ \ {piece}]
<1>1. /\ pos \in DOMAIN downloads /\ d \in PartType /\ d.path \in Paths /\ d.file \in Files
      /\ piece \in d.left /\ piece \in Range(PiecesOf[d.file]) /\ piece \in Pieces
      /\ new \in PartType
      /\ downloads' = [downloads EXCEPT ![pos] = new]
      /\ disk \in [Paths -> Contents \cup {None}]
      /\ disk' = [disk EXCEPT ![d.path] =
                    Written(disk[d.path], Index(PiecesOf[d.file], piece), piece)]
  BY FetchChanges
<1>2. /\ new.file = d.file /\ new.path = d.path
      /\ new.have = d.have \cup {piece} /\ new.left = d.left \ {piece}
  BY <1>1 DEF PartType
<1>3. TypeOK
  BY DEF IInv
<1> HIDE DEF d, new
<1>4. downloads \in Seq(PartType) /\ DOMAIN downloads' = DOMAIN downloads
  BY <1>1, <1>3 DEF TypeOK
<1>5. \A i \in DOMAIN downloads : downloads'[i] = IF i = pos THEN new ELSE downloads[i]
  BY <1>1, <1>4
<1>6. downloads[pos] = d
  BY DEF d
<1>7. \A i \in DOMAIN downloads : /\ downloads'[i].path = downloads[i].path
                                  /\ downloads'[i].file = downloads[i].file
                                  /\ downloads[i].path \in Paths
  <2>1. \A i \in DOMAIN downloads : downloads[i] \in PartType
    BY <1>4
  <2>2. QED
    BY <1>2, <1>5, <1>6, <2>1 DEF PartType
<1>8. \A path \in Paths : OneFile(path)' => OneFile(path)
  BY <1>4, <1>7, OneFileBefore
<1>9. TypeOK'
  <2>1. downloads' \in Seq(PartType) /\ Len(downloads') = Len(downloads)
    BY <1>1, <1>4
  <2>2. \A i \in DOMAIN downloads' :
           /\ downloads'[i].have \cup downloads'[i].left = Range(PiecesOf[downloads'[i].file])
           /\ downloads'[i].have \cap downloads'[i].left = {}
    <3> SUFFICES ASSUME NEW i \in DOMAIN downloads
                 PROVE  /\ downloads'[i].have \cup downloads'[i].left
                             = Range(PiecesOf[downloads'[i].file])
                        /\ downloads'[i].have \cap downloads'[i].left = {}
      BY <1>4
    <3>1. /\ downloads[i].have \cup downloads[i].left = Range(PiecesOf[downloads[i].file])
          /\ downloads[i].have \cap downloads[i].left = {}
      BY <1>3 DEF TypeOK
    <3>2. CASE i = pos
      BY <1>1, <1>2, <1>5, <1>6, <3>1, <3>2
    <3>3. CASE i # pos
      BY <1>5, <3>1, <3>3
    <3>4. QED
      BY <3>2, <3>3
  <2>3. Written(disk[d.path], Index(PiecesOf[d.file], piece), piece) \in Contents
    BY <1>1, IndexInFile, WrittenFacts
  <2>4. disk' \in [Paths -> Contents \cup {None}]
    BY <1>1, <2>3
  <2>5. QED
    BY <1>3, <2>1, <2>2, <2>4 DEF TypeOK, Fetch
<1>10. OnDisk'
  <2> SUFFICES ASSUME NEW i \in DOMAIN downloads, OneFile(downloads[i].path),
                      NEW p \in downloads'[i].have
               PROVE  HoldsIn(disk'[downloads[i].path], PiecesOf[downloads[i].file], p)
    <3>1. ASSUME NEW i \in DOMAIN downloads, (OneFile(downloads[i].path))',
                 NEW p \in downloads'[i].have
          PROVE  HoldsIn(disk'[downloads'[i].path], PiecesOf[downloads'[i].file], p)
      <4>1. PICK x \in Paths : x = downloads[i].path /\ x = downloads'[i].path
        BY <1>7
      <4>2. OneFile(x)'
        BY <3>1, <4>1 DEF OneFile
      <4>3. OneFile(downloads[i].path)
        BY <1>8, <4>1, <4>2
      <4>4. QED
        BY <1>7, <3>1, <4>3
    <3>2. QED
      BY <1>4, <3>1 DEF OnDisk
  <2>1. downloads[i].path \in Paths
    BY <1>7
  <2>2. CASE p \in downloads[i].have
    <3>1. HoldsIn(disk[downloads[i].path], PiecesOf[downloads[i].file], p)
      BY <2>2 DEF IInv, OnDisk
    <3>2. QED
      BY <2>1, <3>1, FetchAdds
  <2>3. CASE p \notin downloads[i].have
    <3>1. i = pos /\ p = piece
      BY <1>2, <1>5, <1>6, <2>3
    <3>2. QED
      BY <2>1, <3>1, FetchAdds
  <2>4. QED
    BY <2>2, <2>3
<1>11. Consistent'
  <2> SUFFICES ASSUME NEW i \in DOMAIN downloads, OneFile(downloads[i].path)
               PROVE  Agrees(disk'[downloads[i].path], downloads[i].file)
    <3>1. ASSUME NEW i \in DOMAIN downloads, (OneFile(downloads[i].path))'
          PROVE  Agrees(disk'[downloads'[i].path], downloads'[i].file)
      <4>1. PICK x \in Paths : x = downloads[i].path /\ x = downloads'[i].path
        BY <1>7
      <4>2. OneFile(x)'
        BY <3>1, <4>1 DEF OneFile
      <4>3. OneFile(downloads[i].path)
        BY <1>8, <4>1, <4>2
      <4>4. QED
        BY <1>7, <3>1, <4>3
    <3>2. QED
      BY <1>4, <3>1 DEF Consistent
  <2>1. downloads[i].path \in Paths
    BY <1>7
  <2>2. CASE downloads[i].path = d.path
    <3>1. downloads[i].file = d.file
      BY <1>1, <1>6, <2>2 DEF OneFile
    <3>2. QED
      BY <1>6, <2>1, <2>2, <3>1, FetchAdds
  <2>3. CASE downloads[i].path # d.path
    <3>1. disk'[downloads[i].path] = disk[downloads[i].path]
      BY <1>1, <2>1, <2>3
    <3>2. QED
      BY <3>1 DEF IInv, Consistent
  <2>4. QED
    BY <2>2, <2>3
<1>12. Asking'
  BY DEF IInv, Asking, Fetch
<1>13. Entries'
  <2> SUFFICES ASSUME NEW name \in Files, filesDB[name] # None,
                      (OneFile(filesDB[name].path))', NEW p \in filesDB[name].have \ {Zero}
               PROVE  HoldsIn(disk'[filesDB[name].path], filesDB[name].blocks, p)
    <3>1. filesDB' = filesDB
      BY DEF Fetch
    <3>2. QED
      BY <3>1 DEF Entries, OneFile
  <2>1. filesDB' = filesDB
    BY DEF Fetch
  <2>2. filesDB[name].path \in Paths
    BY <1>3 DEF TypeOK, EntryType
  <2>3. PICK x \in Paths : x = filesDB[name].path
    BY <2>2
  <2>4. OneFile(x)'
    BY <2>1, <2>3 DEF OneFile
  <2>5. OneFile(x)
    BY <1>8, <2>4
  <2>6. HoldsIn(disk[x], filesDB[name].blocks, p)
    BY <2>3, <2>5 DEF IInv, Entries
  <2>7. QED
    BY <2>3, <2>5, <2>6, FetchAdds
<1>14. NotifiedOnce'
  <2> SUFFICES ASSUME NEW i \in DOMAIN downloads
               PROVE  called[i] <= 1 /\ (called[i] = 1 => IsComplete(downloads'[i]))
    BY <1>4 DEF NotifiedOnce, IsComplete, Fetch
  <2>1. called[i] <= 1 /\ (called[i] = 1 => IsComplete(downloads[i]))
    BY DEF IInv, NotifiedOnce
  <2>2. CASE i = pos
    BY <1>2, <1>5, <1>6, <2>1, <2>2 DEF IsComplete
  <2>3. CASE i # pos
    BY <1>5, <2>1, <2>3
  <2>4. QED
    BY <2>2, <2>3
<1>15. QED
  BY <1>9, <1>10, <1>11, <1>12, <1>13, <1>14 DEF IInv

LEMMA UploadKeeps ==
  ASSUME IInv, NEW path \in Paths, UploadFile(path) PROVE IInv'
<1> DEFINE name == NameOf[path]
           content == disk[path]
           blocks == Blocks(content)
           entry == Entry(blocks, path, Range(blocks))
<1>1. name \in Files
  BY FilesAssumption
<1>2. TypeOK
  BY DEF IInv
<1>3. content \in Contents /\ content # None
  BY <1>2 DEF UploadFile, TypeOK
<1>4. /\ filesDB' = [filesDB EXCEPT ![name] = entry] \/ filesDB' = filesDB
      /\ announced' = announced \cup {[name |-> name, blocks |-> blocks]}
      /\ UNCHANGED <<user, running, downloads, peerDB, disk, thread, called>>
  BY DEF UploadFile, AddPartFile
<1> HIDE DEF name, content
<1>5. /\ blocks \in Contents /\ DOMAIN blocks \subseteq Nat /\ Range(blocks) \subseteq Pieces
      /\ \A k \in DOMAIN blocks :
           blocks[k] # Zero => k \in DOMAIN content /\ blocks[k] = content[k]
  BY <1>3, BlocksFacts
<1> HIDE DEF blocks
<1>6. /\ entry \in EntryType
      /\ entry.path = path /\ entry.have = Range(blocks) /\ entry.blocks = blocks
  BY <1>5 DEF Entry, EntryType
<1> HIDE DEF entry
<1>7. TypeOK'
  <2>1. filesDB' \in [Files -> EntryType \cup {None}]
    BY <1>1, <1>2, <1>4, <1>6 DEF TypeOK
  <2>2. announced' \subseteq [name : Files, blocks : Contents]
    BY <1>1, <1>2, <1>4, <1>5 DEF TypeOK
  <2>3. QED
    BY <1>2, <1>4, <2>1, <2>2 DEF TypeOK, thread
<1>8. Entries'
  <2>1. UNCHANGED <<downloads, disk>>
    BY <1>4
  <2> SUFFICES ASSUME NEW g \in Files, filesDB'[g] # None, (OneFile(filesDB[g].path))',
                      NEW p \in filesDB'[g].have \ {Zero}
               PROVE  HoldsIn(disk[filesDB'[g].path], filesDB'[g].blocks, p)
    BY <2>1 DEF Entries, OneFile
  <2>2. CASE filesDB'[g] = filesDB[g]
    <3>1. OneFile(filesDB[g].path)
      BY <2>1, <2>2 DEF OneFile
    <3>2. QED
      BY <2>2, <3>1 DEF IInv, Entries
  <2>3. CASE filesDB'[g] # filesDB[g]
    <3>1. filesDB'[g] = entry
      BY <1>1, <1>2, <1>4, <2>3 DEF TypeOK
    <3>2. p \in Range(blocks) /\ p # Zero
      BY <1>6, <3>1
    <3>3. Index(blocks, p) \in DOMAIN blocks /\ blocks[Index(blocks, p)] = p
      BY <1>5, <3>2, IndexOf
    <3>4. HoldsIn(content, blocks, p)
      BY <1>3, <1>5, <3>2, <3>3 DEF HoldsIn
    <3>5. QED
      BY <1>6, <3>1, <3>4 DEF content
  <2>4. QED
    BY <2>2, <2>3
<1>9. OnDisk' /\ Consistent'
  <2>1. UNCHANGED <<downloads, disk>>
    BY <1>4
  <2>2. OnDisk'
    BY <2>1 DEF IInv, OnDisk, OneFile
  <2>3. Consistent'
    BY <2>1 DEF IInv, Consistent, OneFile
  <2>4. QED
    BY <2>2, <2>3
<1>10. Asking' /\ NotifiedOnce'
  BY <1>4 DEF thread, IInv, Asking, NotifiedOnce, IsComplete
<1>11. QED
  BY <1>7, <1>8, <1>9, <1>10 DEF IInv

LEMMA DownloadKeeps ==
  ASSUME IInv, NEW f \in Files, NEW seeders \in SUBSET Peers, NEW path \in Paths,
         DownloadFile(f, seeders, path)
  PROVE  IInv'
<1>1. TypeOK
  BY DEF IInv
<1>2. /\ peerDB' \in [Files -> SUBSET Peers]
      /\ pc' \in {pc, "top"} /\ running' \in BOOLEAN
      /\ UNCHANGED <<user, disk, announced, pos, last, piece, ask>>
  BY <1>1 DEF DownloadFile, StartDownloads, TypeOK
<1>3. CASE disk[path] # None
  <2>1. UNCHANGED <<downloads, filesDB, disk, called>>
    BY <1>3 DEF DownloadFile, Enqueue
  <2>2. TypeOK'
    BY <1>1, <1>2, <2>1 DEF TypeOK
  <2>3. Asking'
    BY <1>2, <2>1 DEF IInv, Asking
  <2>4. QED
    BY <2>1, <2>2, <2>3, SameFiles, SameReports DEF IInv
<1>4. CASE disk[path] = None
  <2> DEFINE part == Part(f, path, {})
             entry == Entry(PiecesOf[f], path, {})
             n == Len(downloads)
  <2>1. /\ part \in PartType /\ part.file = f /\ part.path = path
        /\ part.have = {} /\ part.left = Range(PiecesOf[f])
    BY FileFacts DEF Part, PartType
  <2>2. entry \in EntryType /\ entry.have = {}
    BY FileIsContent DEF Entry, EntryType
  <2>3. /\ downloads' = Append(downloads, part) /\ called' = Append(called, 0)
        /\ filesDB' = [filesDB EXCEPT ![f] = entry] \/ filesDB' = filesDB
    BY <1>4 DEF DownloadFile, Enqueue, AddPartFile
  <2>4. downloads \in Seq(PartType) /\ called \in Seq(Nat) /\ Len(called) = n /\ n \in Nat
    BY <1>1 DEF TypeOK
  <2> HIDE DEF part, entry, n
  <2>5. /\ downloads' \in Seq(PartType) /\ Len(downloads') = n + 1
        /\ called' \in Seq(Nat) /\ Len(called') = n + 1
    BY <2>1, <2>3, <2>4 DEF n
  <2>6. /\ DOMAIN downloads = 1..n /\ DOMAIN downloads' = 1..(n + 1)
        /\ DOMAIN called = 1..n
    BY <2>4, <2>5 DEF n
  <2>7. /\ \A i \in 1..n : downloads'[i] = downloads[i] /\ called'[i] = called[i]
        /\ downloads'[n + 1] = part /\ called'[n + 1] = 0
    BY <2>3, <2>4 DEF n
  <2>8. TypeOK'
    <3>1. \A i \in DOMAIN downloads' :
             /\ downloads'[i].have \cup downloads'[i].left = Range(PiecesOf[downloads'[i].file])
             /\ downloads'[i].have \cap downloads'[i].left = {}
      <4> SUFFICES ASSUME NEW i \in 1..(n + 1)
                   PROVE  /\ downloads'[i].have \cup downloads'[i].left
                               = Range(PiecesOf[downloads'[i].file])
                          /\ downloads'[i].have \cap downloads'[i].left = {}
        BY <2>6
      <4>1. CASE i = n + 1
        BY <2>1, <2>7, <4>1
      <4>2. CASE i \in 1..n
        BY <1>1, <2>6, <2>7, <4>2 DEF TypeOK
      <4>3. QED
        BY <2>4, <4>1, <4>2
    <3>2. filesDB' \in [Files -> EntryType \cup {None}]
      BY <1>1, <2>2, <2>3 DEF TypeOK
    <3>3. last' \in 0..Len(downloads')
      BY <1>1, <1>2, <2>4, <2>5 DEF TypeOK, n
    <3>4. QED
      BY <1>1, <1>2, <2>5, <3>1, <3>2, <3>3 DEF TypeOK
  <2>9. \A x : OneFile(x)' => OneFile(x)
    <3>1. DOMAIN downloads \subseteq DOMAIN downloads'
      BY <2>4, <2>6
    <3>2. \A i \in DOMAIN downloads : /\ downloads'[i].path = downloads[i].path
                                      /\ downloads'[i].file = downloads[i].file
      BY <2>6, <2>7
    <3>3. QED
      BY <3>1, <3>2, OneFileBefore
  <2>10. OnDisk'
    <3> SUFFICES ASSUME NEW i \in 1..(n + 1), (OneFile(downloads[i].path))',
                        NEW p \in downloads'[i].have
                 PROVE  HoldsIn(disk[downloads'[i].path], PiecesOf[downloads'[i].file], p)
      BY <1>2, <2>6 DEF OnDisk
    <3>1. i \in 1..n /\ downloads'[i] = downloads[i]
      <4>1. i # n + 1
        BY <2>1, <2>7
      <4>2. QED
        BY <2>4, <2>7, <4>1
    <3>2. PICK x : x = downloads[i].path
      OBVIOUS
    <3>3. OneFile(x)'
      BY <3>1, <3>2 DEF OneFile
    <3>4. OneFile(downloads[i].path)
      BY <2>9, <3>2, <3>3
    <3>5. QED
      BY <2>6, <3>1, <3>4 DEF IInv, OnDisk
  <2>11. Consistent'
    <3> SUFFICES ASSUME NEW i \in 1..(n + 1), (OneFile(downloads[i].path))'
                 PROVE  Agrees(disk[downloads'[i].path], downloads'[i].file)
      BY <1>2, <2>6 DEF Consistent
    <3>1. CASE i = n + 1
      BY <1>4, <2>1, <2>7, <3>1 DEF Agrees
    <3>2. CASE i \in 1..n
      <4>1. downloads'[i] = downloads[i]
        BY <2>7, <3>2
      <4>2. PICK x : x = downloads[i].path
        OBVIOUS
      <4>3. OneFile(x)'
        BY <4>1, <4>2 DEF OneFile
      <4>4. OneFile(downloads[i].path)
        BY <2>9, <4>2, <4>3
      <4>5. QED
        BY <2>6, <3>2, <4>1, <4>4 DEF IInv, Consistent
    <3>3. QED
      BY <2>4, <3>1, <3>2
  <2>12. Asking'
    <3>1. pc' \in {"ask", "waiting"} => pc' = pc /\ pos \in 1..n
      BY <1>1, <1>2, <2>4 DEF IInv, TypeOK, Asking, n
    <3>2. QED
      BY <1>2, <2>7, <3>1 DEF IInv, Asking
  <2>13. Entries'
    <3> SUFFICES ASSUME NEW g \in Files, filesDB'[g] # None, (OneFile(filesDB[g].path))',
                        NEW p \in filesDB'[g].have \ {Zero}
                 PROVE  HoldsIn(disk[filesDB'[g].path], filesDB'[g].blocks, p)
      BY <1>2 DEF Entries
    <3>1. filesDB'[g] = filesDB[g]
      BY <1>1, <2>2, <2>3 DEF TypeOK
    <3>2. PICK x : x = filesDB[g].path
      OBVIOUS
    <3>3. OneFile(x)'
      BY <3>1, <3>2 DEF OneFile
    <3>4. OneFile(filesDB[g].path)
      BY <2>9, <3>2, <3>3
    <3>5. QED
      BY <3>1, <3>4 DEF IInv, Entries
  <2>14. NotifiedOnce'
    <3> SUFFICES ASSUME NEW i \in 1..(n + 1)
                 PROVE  called'[i] <= 1 /\ (called'[i] = 1 => IsComplete(downloads'[i]))
      BY <2>6 DEF NotifiedOnce, IsComplete
    <3>1. CASE i = n + 1
      BY <2>7, <3>1
    <3>2. CASE i \in 1..n
      BY <2>6, <2>7, <3>2 DEF IInv, NotifiedOnce
    <3>3. QED
      BY <2>4, <3>1, <3>2
  <2>15. QED
    BY <2>8, <2>10, <2>11, <2>12, <2>13, <2>14 DEF IInv
<1>5. QED
  BY <1>3, <1>4

LEMMA StepInv ==
  ASSUME IInv, [Next]_vars PROVE IInv'
<1>1. ASSUME NEW f \in Files, NEW seeders \in SUBSET Peers, NEW path \in Paths,
             DownloadFile(f, seeders, path)
      PROVE  IInv'
  BY <1>1, DownloadKeeps
<1>2. ASSUME NEW path \in Paths, UploadFile(path) PROVE IInv'
  BY <1>2, UploadKeeps
<1>3. CASE Quit \/ Join
  BY <1>3, ControlKeeps
<1>4. CASE ThreadStep
  <2>1. CASE BeginPass \/ EndPass \/ Skip \/ Choose
    BY <2>1, ControlKeeps
  <2>2. CASE Finish
    BY <2>2, FinishKeeps
  <2>3. CASE \E peer \in Peers : Fetch(peer)
    BY <2>3, FetchKeeps
  <2>4. CASE \E peer \in Peers : Miss(peer) \/ Die(peer) \/ Hang(peer)
    BY <2>4, ControlKeeps
  <2>5. QED
    BY <1>4, <2>1, <2>2, <2>3, <2>4 DEF ThreadStep
<1>5. CASE UNCHANGED vars
  <2>1. UNCHANGED <<downloads, filesDB, disk, called>>
    BY <1>5 DEF vars
  <2>2. TypeOK' /\ Asking'
    BY <1>5 DEF vars, thread, IInv, TypeOK, Asking
  <2>3. QED
    BY <2>1, <2>2, SameFiles, SameReports DEF IInv
<1>6. QED
  BY <1>1, <1>2, <1>3, <1>4, <1>5 DEF Next

(* No step changes the path of a download that is complete. *)
LEMMA StepStays ==
  ASSUME IInv, [Next]_vars, NEW i \in DOMAIN downloads,
         IsComplete(downloads[i]), OneFile(downloads[i].path)
  PROVE  disk'[downloads[i].path] = disk[downloads[i].path]
<1>1. CASE UNCHANGED disk
  BY <1>1
<1>2. ASSUME NEW peer \in Peers, Fetch(peer)
      PROVE  disk'[downloads[i].path] = disk[downloads[i].path]
  <2>1. PICK d : /\ d = downloads[pos] /\ pos \in DOMAIN downloads
                 /\ d.path \in Paths /\ piece \in Range(PiecesOf[d.file])
                 /\ disk \in [Paths -> Contents \cup {None}]
                 /\ disk' = [disk EXCEPT ![d.path] =
                               Written(disk[d.path], Index(PiecesOf[d.file], piece), piece)]
    BY <1>2, FetchChanges
  <2>2. downloads[i].path \in Paths
    <3>1. downloads[i] \in PartType
      BY DEF IInv, TypeOK
    <3>2. QED
      BY <3>1 DEF PartType
  <2>3. CASE downloads[i].path = d.path
    <3>1. downloads[i].file = d.file
      BY <2>1, <2>3 DEF OneFile
    <3>2. piece \in downloads[i].have
      <4>1. downloads[i].have \cup downloads[i].left = Range(PiecesOf[downloads[i].file])
        BY DEF IInv, TypeOK
      <4>2. QED
        BY <2>1, <3>1, <4>1 DEF IsComplete
    <3>3. HoldsIn(disk[downloads[i].path], PiecesOf[d.file], piece)
      BY <3>1, <3>2 DEF IInv, OnDisk
    <3>4. QED
      BY <1>2, <2>1, <2>2, <2>3, <3>3, FetchAdds
  <2>4. CASE downloads[i].path # d.path
    BY <2>1, <2>2, <2>4
  <2>5. QED
    BY <2>3, <2>4
<1>3. QED
  BY <1>1, <1>2 DEF Next, ThreadStep, vars, DownloadFile, UploadFile, Quit, Join, BeginPass,
       EndPass, Skip, Choose, Finish, Miss, Die, Hang

-----------------------------------------------------------------------------
(* The invariant from which the other theorems follow: it holds whatever the user
   enqueues and shares and whatever peers answer. *)
THEOREM DownloadsInvariant == Spec => []IInv
<1>1. Init => IInv
  BY InitInv
<1>2. IInv /\ [Next]_vars => IInv'
  BY StepInv
<1>3. QED
  BY <1>1, <1>2, PTL DEF Spec

(* The state of a client's downloads keeps its types; the pieces of a download
   are split into those it has and those it lacks. *)
THEOREM TypeCorrect == Spec => []TypeOK
<1>1. IInv => TypeOK
  BY DEF IInv
<1>2. QED
  BY <1>1, DownloadsInvariant, PTL

(* Of what counts as complete, every block is in its place and nothing else is in
   the file, unless downloads of different files go to its path. *)
THEOREM CompleteIsOnDisk == Spec => []CompleteOnDisk
<1>1. IInv => CompleteOnDisk
  BY InvariantMeans
<1>2. QED
  BY <1>1, DownloadsInvariant, PTL

(* on_download_complete is called once at most, for what is complete. *)
THEOREM ReportedOnce == Spec => []NotifiedOnce
<1>1. IInv => NotifiedOnce
  BY DEF IInv
<1>2. QED
  BY <1>1, DownloadsInvariant, PTL

(* A piece that FilesDB claims is served as it was, also of a file that was shared
   half-written, unless it is a hole of such a file or downloads of different files
   go to its path. *)
THEOREM ServedIsValid == Spec => []ServedPieceValid
<1>1. IInv => ServedPieceValid
  BY InvariantMeans
<1>2. QED
  BY <1>1, DownloadsInvariant, PTL

(* A file that is complete is left alone, also by downloads of the same file to its
   path that were accepted before its first piece was written. *)
THEOREM FilesStay == Spec => FinishedFilesStay
<1>1. IInv /\ [Next]_vars
        => [\A i \in DOMAIN downloads :
              IsComplete(downloads[i]) /\ OneFile(downloads[i].path)
                => disk'[downloads[i].path] = disk[downloads[i].path]]_vars
  BY StepStays
<1>2. QED
  BY <1>1, DownloadsInvariant, PTL DEF Spec, FinishedFilesStay
==============================================================================
