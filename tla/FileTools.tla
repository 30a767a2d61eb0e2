------------------------------ MODULE FileTools ------------------------------
(***************************************************************************)
(* The file tools of pkg/agentloop (tools.go, write.go, search.go): the    *)
(* model names a path, the tool resolves it under the working directory    *)
(* and then reads, lists, searches or writes.  Scripts, editors and other  *)
(* programs change the tree between any two of a tool's steps.             *)
(*                                                                         *)
(* The tree is a function from canonical paths to directories, files and   *)
(* symbolic links.  The working directory is configured as a link, so that *)
(* resolving it matters.  The walks of glob and search, a listing and the  *)
(* preview of a write each see one tree.                                   *)
(***************************************************************************)
EXTENDS Diff

CONSTANTS FileName,   \* names of files and directories
          Rel,        \* paths a model may ask for, relative to the working directory
          Spot,       \* canonical paths others may change
          Goal,       \* where a link may lead
          Content,    \* contents of files
          Ranges,     \* offsets and limits a model may ask for
          maxRead,    \* maxBytes and maxRangeBytes, in short lines
          maxEntries, maxMatches, maxSearchHits,
          MaxLinks,   \* links followed before a path is given up
          MaxEdits    \* bound: changes of the tree

(* A path is the names on it, from the top.  The working directory is a link. *)
NoPath == <<"nowhere">>
Root   == <<"cwd">>
Home   == <<"work">>

(* Others leave the working directory itself, and what leads there, alone.    *)
ASSUME FileAssumption ==
  /\ \A n \in {maxRead, maxEntries, maxMatches, maxSearchHits, MaxLinks} : n \in Nat \ {0}
  /\ MaxEdits \in Nat
  /\ {"cwd", "work", "out", "b", ".git"} \subseteq FileName /\ "nowhere" \notin FileName
  /\ Rel \cup Spot \cup Goal \subseteq Seq(FileName)
  /\ \A c \in Content : c.lines \in Seq({"plain", "hit", "huge"})
  /\ Ranges \subseteq Int \X Int
  /\ \A p \in Spot : ~IsPrefix(p, Root) /\ ~IsPrefix(p, Home)

VARIABLES
  tree,     \* the file system
  running,  \* the call that is running, and how far it is
  answer,   \* what the last call answered
  touched,  \* history: canonical paths the last call read, wrote or made
  moved,    \* history: stages of the last call during which others changed the tree
  edits     \* history: changes of the tree

fileVars == <<tree, running, answer, touched, moved, edits>>

-----------------------------------------------------------------------------
(* The file system *)

Dir       == [type |-> "dir"]
Plain(c)  == [type |-> "file", content |-> c]
Link(to)  == [type |-> "link", to |-> to]

Is(p, type) == p \in DOMAIN tree /\ tree[p].type = type

(* t with entry at each of ps. *)
Entered(t, ps, entry) == [p \in DOMAIN t \cup ps |-> IF p \in ps THEN entry ELSE t[p]]

Top(p, n) == SubSeq(p, 1, n)

(* Where p leads through a link or to nothing. *)
Stops(p) == {n \in 1..Len(p) : Top(p, n) \notin DOMAIN tree \/ Is(Top(p, n), "link")}

Canonical(p) == Stops(p) = {}

(* The first link on the way gives way to what it says. *)
Follow(p) ==
  LET n == Min(Stops(p)) IN
  IF Canonical(p) THEN p
  ELSE IF Top(p, n) \notin DOMAIN tree THEN NoPath
  ELSE tree[Top(p, n)].to \o SubSeq(p, n + 1, Len(p))

(* filepath.EvalSymlinks, and the kernel's own resolution: every link on the *)
(* way is followed, and the whole path must exist.                           *)
EvalSymlinks(p) ==
  LET hop[n \in 0..MaxLinks] == IF n = 0 THEN p ELSE Follow(hop[n - 1])
      q == hop[MaxLinks]
  IN  IF Canonical(q) THEN q ELSE NoPath

(* Where p's last name is: what leads there is followed, the name is not. *)
Place(p) == IF p = <<>> THEN p ELSE Append(EvalSymlinks(Front(p)), Last(p))

(* os.Lstat does not follow the last link; os.Create follows it to where the *)
(* file would be.                                                            *)
Lexists(p) == Place(p) \in DOMAIN tree

CreatedAt(p) ==
  LET hop[n \in 0..MaxLinks] ==
        IF n = 0 THEN p
        ELSE IF Is(Place(hop[n - 1]), "link") THEN tree[Place(hop[n - 1])].to ELSE hop[n - 1]
      q == hop[MaxLinks]
  IN  IF Is(EvalSymlinks(Front(q)), "dir") /\ ~Is(Place(q), "link") THEN Place(q) ELSE NoPath

(* How much of p exists, as one finds who begins with the whole. *)
Existing(p) == Max({n \in 0..Len(p) : Lexists(Top(p, n))})

(* That much of it resolved, and what is missing put back. *)
Known(p)    == EvalSymlinks(Top(p, Existing(p)))
Restored(p) == Known(p) \o SubSeq(p, Existing(p) + 1, Len(p))
Missing(p)  == {Top(Restored(p), n) : n \in Len(Known(p)) + 1..Len(Restored(p))}

(* filepath.Join cleans: ".." takes away what stands before it. *)
Join(p, rel) ==
  LET upTo[n \in 0..Len(rel)] ==
        IF n = 0 THEN p
        ELSE IF rel[n] = ".." THEN Front(upTo[n - 1]) ELSE Append(upTo[n - 1], rel[n])
  IN  upTo[Len(rel)]

-----------------------------------------------------------------------------
(* Resolving *)

under(root, p) == IsPrefix(root, p)

insideGitDir(root, p) == ".git" \in ToSet(SubSeq(p, Len(root) + 1, Len(p)))

Inside(p) == under(Home, p) /\ ~insideGitDir(Home, p)

(* Mutant of resolveUnder: the path is cleaned and not resolved. *)
cleanUnder(rel) ==
  LET p == Join(EvalSymlinks(Root), rel) IN IF p \in DOMAIN tree /\ Inside(p) THEN p ELSE NoPath

resolveUnder(rel) ==
  LET root == EvalSymlinks(Root)
      p    == EvalSymlinks(Join(root, rel))
  IN  IF p # NoPath /\ under(root, p) /\ ~insideGitDir(root, p) THEN p ELSE NoPath

(* A path to write may lead to nothing yet: its deepest ancestor that exists  *)
(* is resolved.                                                               *)
resolveForWrite(rel) ==
  LET root   == EvalSymlinks(Root)
      full   == Join(root, rel)
      target == Restored(full)
  IN  IF /\ Known(full) # NoPath /\ under(root, Known(full))
         /\ under(root, target) /\ ~insideGitDir(root, target)
         /\ ~Is(EvalSymlinks(target), "dir")
        THEN target ELSE NoPath

-----------------------------------------------------------------------------

Idle == [op |-> "idle"]
NoAnswer == [op |-> "none"]

(* A repository, or a worktree, whose .git is a file. *)
FileInit ==
  /\ \E git \in {Dir, Plain(CHOOSE c \in Content : TRUE)}, c \in Content :
       LET gitDir == Append(Home, ".git")
           dirs   == {<<>>, Home, <<"out">>}
           files  == {<<"out", "b">>} \cup IF git = Dir THEN {Append(gitDir, "b")} ELSE {}
       IN  tree = [p \in {Root, gitDir} \cup dirs \cup files |->
                     IF p = Root THEN Link(Home)
                     ELSE IF p = gitDir THEN git
                     ELSE IF p \in dirs THEN Dir ELSE Plain(c)]
  /\ running = Idle /\ answer = NoAnswer
  /\ touched = {} /\ moved = {} /\ edits = 0

Start(c) ==
  /\ running = Idle
  /\ running' = c
  /\ answer' = NoAnswer /\ touched' = {} /\ moved' = {}
  /\ UNCHANGED <<tree, edits>>

Done(a) == running' = Idle /\ answer' = a

-----------------------------------------------------------------------------
(* WriteFile *)

(* Mutant of writePreview: the path is not resolved before it is shown. *)
previewUnresolved(rel, c) ==
  LET p == Join(EvalSymlinks(Root), rel) IN
  IF Is(p, "file") THEN [says |-> "diff", at |-> p, was |-> tree[p].content]
  ELSE [says |-> "new", at |-> p, makes |-> Len(rel) > 1 /\ ~Is(Front(p), "dir")]

(* readIfPresent of the preview; a file that is not there is an empty one to  *)
(* the diff.                                                                  *)
writePreview(rel, c) ==
  LET target == resolveForWrite(rel)
      real   == EvalSymlinks(target)
  IN  IF target = NoPath THEN [says |-> "refused"]
      ELSE IF Is(real, "file")
        THEN [says |-> IF tree[real].content = c THEN "same" ELSE "diff", at |-> target,
              was |-> tree[real].content]
      ELSE [says |-> "new", at |-> target,
            makes |-> Len(rel) > 1 /\ ~Is(EvalSymlinks(Front(target)), "dir")]

AskWrite(rel, c) ==
  /\ edits < MaxEdits
  /\ Start([op |-> "write", stage |-> "asked", rel |-> rel, content |-> c,
            preview |-> writePreview(rel, c), target |-> NoPath])

Decline ==
  /\ running.op = "write" /\ running.stage = "asked"
  /\ Done([op |-> "declined"])
  /\ UNCHANGED <<tree, touched, moved, edits>>

(* Approved, the path is resolved once more. *)
Resolve ==
  /\ running.op = "write" /\ running.stage = "asked"
  /\ LET target == resolveForWrite(running.rel) IN
       IF target = NoPath THEN Done([op |-> "write", ok |-> FALSE, call |-> running])
       ELSE running' = [running EXCEPT !.stage = "resolved", !.target = target] /\ UNCHANGED answer
  /\ UNCHANGED <<tree, touched, moved, edits>>

(* os.MkdirAll: from the top, each directory that is missing is made where    *)
(* its parent leads; anything else in the way is an error.                    *)
MkdirAll ==
  /\ running.op = "write" /\ running.stage = "resolved"
  /\ LET dir == Front(running.target) IN
     IF Is(Known(dir), "dir")
       THEN /\ tree' = Entered(tree, Missing(dir), Dir)
            /\ touched' = touched \cup Missing(dir)
            /\ running' = [running EXCEPT !.stage = "made"]
            /\ UNCHANGED answer
       ELSE Done([op |-> "write", ok |-> FALSE, call |-> running]) /\ UNCHANGED <<tree, touched>>
  /\ UNCHANGED <<moved, edits>>

(* os.WriteFile; what was there is read before it, for the wording alone. *)
Write ==
  /\ running.op = "write" /\ running.stage = "made"
  /\ LET p  == CreatedAt(running.target)
         ok == p # NoPath /\ ~Is(p, "dir")
     IN  /\ Done([op |-> "write", ok |-> ok, call |-> running,
                  replaced |-> IF Is(p, "file") THEN {tree[p].content} ELSE {}])
         /\ tree' = IF ok THEN Entered(tree, {p}, Plain(running.content)) ELSE tree
         /\ touched' = IF ok THEN touched \cup {p} ELSE touched
  /\ edits' = edits + 1
  /\ UNCHANGED moved

-----------------------------------------------------------------------------
(* Reading *)

Size(lines) == FoldLeft(LAMBDA n, l : n + (IF l = "huge" THEN maxRead + 1 ELSE 1), 0, lines)

(* readUnder refuses a file over the cap. *)
Whole(lines) ==
  IF Size(lines) > maxRead THEN [ok |-> FALSE] ELSE [ok |-> TRUE, lines |-> lines]

(* readRangeUnder's scan.  A line over the scanner's buffer ends it with an   *)
(* error, and so does a range over the cap; the count goes on past the limit. *)
readRange(lines, offset, limit) ==
  LET first == IF offset = 0 THEN 1 ELSE offset
      scan[n \in 0..Len(lines)] ==
        IF n = 0 THEN [ok |-> TRUE, line |-> 0, out |-> <<>>]
        ELSE LET s == scan[n - 1] IN
             IF ~s.ok THEN s
             ELSE IF lines[n] = "huge" THEN [s EXCEPT !.ok = FALSE]
             ELSE IF s.line + 1 < first \/ (limit > 0 /\ Len(s.out) = limit)
               THEN [s EXCEPT !.line = @ + 1]
             ELSE [ok |-> Len(s.out) <= maxRead, line |-> s.line + 1, out |-> Append(s.out, lines[n])]
      all == scan[Len(lines)]
  IN  IF offset < 0 \/ limit < 0 \/ ~all.ok \/ first > all.line THEN [ok |-> FALSE]
      ELSE [ok |-> TRUE, from |-> first, to |-> first + Len(all.out) - 1, of |-> all.line, lines |-> all.out]

(* ReadFile and ListDir resolve, and look at what they have resolved. *)
ReadFile(rel, offset, limit) ==
  Start([op |-> "read", stage |-> "resolved", target |-> resolveUnder(rel), offset |-> offset, limit |-> limit])

ListDir(rel) == Start([op |-> "list", stage |-> "resolved", target |-> resolveUnder(rel)])

(* An error: refused, gone, of the wrong type or over a cap. *)
Fails == Done([op |-> "error"]) /\ UNCHANGED touched

Open ==
  /\ running.op = "read"
  /\ LET p == EvalSymlinks(running.target) IN
       IF ~Is(p, "file") THEN Fails
       ELSE LET got == IF running.offset = 0 /\ running.limit = 0
                         THEN Whole(tree[p].content.lines)
                         ELSE readRange(tree[p].content.lines, running.offset, running.limit)
            IN  /\ Done([op |-> "read", file |-> tree[p].content.lines, got |-> got])
                /\ touched' = {p}
  /\ UNCHANGED <<tree, moved, edits>>

Entries(p) == {q \in DOMAIN tree : q # <<>> /\ Front(q) = p}

ReadDir ==
  /\ running.op = "list"
  /\ LET p == EvalSymlinks(running.target)
         n == Cardinality(Entries(p))
     IN  IF ~Is(p, "dir") THEN Fails
         ELSE /\ Done([op |-> "list", all |-> n, shown |-> Min({n, maxEntries}), more |-> n > maxEntries])
              /\ touched' = {p}
  /\ UNCHANGED <<tree, moved, edits>>

-----------------------------------------------------------------------------
(* Walking *)

(* What filepath.WalkDir visits below start that is no directory, without the *)
(* directories that are skipped (start itself never is).                      *)
Visited(start) ==
  {p \in DOMAIN tree : /\ IsPrefix(start, p) /\ tree[p].type # "dir"
                       /\ \A n \in Len(start) + 1..Len(p) - 1 : p[n] # ".git"}

(* globUnder: names alone, and a match too many is what tells that there are  *)
(* more.                                                                      *)
Glob(names) ==
  /\ running = Idle
  /\ LET match == Cardinality({p \in Visited(EvalSymlinks(Root)) : Last(p) \in names})
     IN  answer' = [op |-> "glob", all |-> match, shown |-> Min({match, maxMatches}),
                    more |-> match > maxMatches]
  /\ touched' = {} /\ moved' = {}
  /\ UNCHANGED <<tree, running, edits>>

(* Mutant of searchOneFile: the search stops without a word. *)
searchQuietly(acc, lines) ==
  FoldLeft(LAMBDA s, l : IF l # "hit" \/ s.stop THEN s
                         ELSE IF s.hits >= maxSearchHits THEN [s EXCEPT !.stop = TRUE]
                         ELSE [s EXCEPT !.hits = @ + 1],
           acc, lines)

(* What the scanner gives: a line over its buffer ends the file, and the error *)
(* is not looked at.                                                           *)
Scanned(lines) ==
  LET long == {i \in 1..Len(lines) : lines[i] = "huge"}
  IN  IF long = {} THEN lines ELSE SubSeq(lines, 1, Min(long) - 1)

searchOneFile(acc, lines) ==
  LET read == Scanned(lines)
      upTo[n \in 0..Len(read)] ==
        IF n = 0 THEN acc
        ELSE LET s == upTo[n - 1] IN
             IF s.stop \/ read[n] # "hit" THEN s
             ELSE IF s.hits >= maxSearchHits THEN [s EXCEPT !.more = TRUE, !.stop = TRUE]
             ELSE [s EXCEPT !.hits = @ + 1]
  IN  upTo[Len(read)]

(* os.Open follows a link the walk has come upon. *)
LinesAt(p) == LET q == EvalSymlinks(p) IN IF Is(q, "file") THEN tree[q].content.lines ELSE <<>>

searchUnder(walk) ==
  LET upTo[n \in 0..Len(walk)] ==
        IF n = 0 THEN [hits |-> 0, more |-> FALSE, stop |-> FALSE]
        ELSE LET s == upTo[n - 1] IN
             IF s.stop THEN s
             ELSE IF s.hits >= maxSearchHits THEN [s EXCEPT !.more = TRUE, !.stop = TRUE]
             ELSE searchOneFile(s, LinesAt(walk[n]))
  IN  upTo[Len(walk)]

Hits(lines) == Cardinality({i \in 1..Len(lines) : lines[i] = "hit"})

(* What there is to be found. *)
HitsIn(walk) ==
  LET upTo[n \in 0..Len(walk)] == IF n = 0 THEN 0 ELSE upTo[n - 1] + Hits(LinesAt(walk[n]))
  IN  upTo[Len(walk)]

Search(rel) ==
  /\ running = Idle
  /\ LET start == IF rel = <<>> THEN EvalSymlinks(Root) ELSE resolveUnder(rel)
         walk  == SetToSeq(Visited(start))
         found == searchUnder(walk)
     IN  IF start = NoPath THEN answer' = [op |-> "error"] /\ touched' = {}
         ELSE /\ answer' = [op |-> "search", shown |-> found.hits, more |-> found.more,
                            all  |-> HitsIn(walk),
                            long |-> \E p \in Visited(start) : "huge" \in ToSet(LinesAt(p)),
                            links |-> {EvalSymlinks(p) : p \in {q \in Visited(start) : Is(q, "link")}}]
              /\ touched' = {EvalSymlinks(p) : p \in Visited(start)} \ {NoPath}
  /\ moved' = {}
  /\ UNCHANGED <<tree, running, edits>>

-----------------------------------------------------------------------------
(* Others change the tree: a file, a directory or a link appears in the place *)
(* of whatever was there, or it is removed.                                   *)

Without(p) == [q \in {x \in DOMAIN tree : ~IsPrefix(p, x)} |-> tree[q]]

Becomes(p, t) ==
  /\ edits < MaxEdits /\ Is(Front(p), "dir")
  /\ tree' = t
  /\ edits' = edits + 1
  /\ moved' = IF running = Idle THEN moved ELSE moved \cup {running.stage}
  /\ UNCHANGED <<running, answer, touched>>

Put(p, entry) == Becomes(p, Entered(Without(p), {p}, entry))

Vanish(p) == p \in DOMAIN tree /\ Becomes(p, Without(p))

-----------------------------------------------------------------------------

FileNext ==
  \/ \E rel \in Rel \ {<<>>} :
       \/ \E c \in Content : AskWrite(rel, c)
       \/ \E r \in Ranges : ReadFile(rel, r[1], r[2])
  \/ \E rel \in Rel : ListDir(rel) \/ Search(rel)
  \/ \E names \in {{"a"}, {"a", "b"}} : Glob(names)
  \/ Decline \/ Resolve \/ MkdirAll \/ Write
  \/ Open \/ ReadDir
  \/ \E p \in Spot : Vanish(p) \/ \E e \in {Dir} \cup {Plain(c) : c \in Content} \cup {Link(g) : g \in Goal} : Put(p, e)

FileSpec == FileInit /\ [][FileNext]_fileVars

-----------------------------------------------------------------------------
(* Properties *)

(* Whatever path the model names, and whatever links others have put into the *)
(* tree before the call, what a tool reads, lists, makes or writes is in the  *)
(* working directory and not in .git (tools.go:325 "SHARED BY EVERY TOOL THAT *)
(* TAKES A PATH"), unless the tree changed after the path was resolved.  A    *)
(* search is the exception: it follows a link to a file, wherever that is,    *)
(* and reads a .git that is a file.                                           *)
Confined ==
  moved \subseteq {"asked"} =>
    IF answer.op = "search"
      THEN \A p \in touched \ answer.links : under(Home, p) /\ ~insideGitDir(Home, Front(p))
      ELSE \A p \in touched : Inside(p)

(* A write the operator approved, in a tree nobody changed meanwhile, is the  *)
(* one that was shown: the same file, the contents the diff was against, and  *)
(* directories only if they were named (write.go:99 "A path that will be      *)
(* refused says so here too").  Only a path that leads through a file is      *)
(* promised and then fails.                                                   *)
WrittenAsShown ==
  answer.op = "write" /\ moved = {} =>
    LET shown == answer.call.preview IN
    IF answer.ok
      THEN /\ shown.says # "refused"
           /\ shown.at \in touched
           /\ answer.replaced = IF shown.says = "new" THEN {} ELSE {shown.was}
           /\ touched # {shown.at} <=> (shown.says = "new" /\ shown.makes)
      ELSE shown.says = "refused" \/ (shown.says = "new" /\ shown.makes)

(* What a tool answers is all there is, or says that it is not: a listing, a  *)
(* glob, a search and a range of lines (tools.go:510 "SAID, NOT SILENT",      *)
(* search.go:36).  A range is what its header says and counts the whole file. *)
(* Only the rest of a file after a line too long for the scanner is left out  *)
(* of a search silently; a search may say it stopped when nothing was left.   *)
SaysWhatItLeftOut ==
  /\ answer.op \in {"list", "glob", "search"} =>
       /\ answer.shown < answer.all => answer.more \/ (answer.op = "search" /\ answer.long)
       /\ answer.more /\ answer.op # "search" => answer.shown < answer.all
       /\ answer.more /\ answer.op = "search" => answer.shown = maxSearchHits
  /\ answer.op = "read" /\ answer.got.ok =>
       IF "of" \in DOMAIN answer.got
         THEN /\ answer.got.lines = SubSeq(answer.file, answer.got.from, answer.got.to)
              /\ answer.got.of = Len(answer.file)
         ELSE answer.got.lines = answer.file
=============================================================================
