------------------------------- MODULE Forge -------------------------------
(***************************************************************************)
(* pkg/forge: several pipelines work on one pull request of a forge.       *)
(* UpsertSticky (sticky.go) lists the comments page by page, looks for its *)
(* marker and updates or creates; EnsurePR (drivers/github, drivers/gitea) *)
(* looks for an open pull request of its branch and adopts it or creates   *)
(* one.  Each step is one request; between two of them other pipelines     *)
(* and people comment, delete, open and close.                             *)
(*                                                                         *)
(* Of a comment's body the markers in it are kept.  A request that fails   *)
(* changes nothing; one whose answer is lost is, to the forge and to the   *)
(* next call, the same as one that was answered.                           *)
(***************************************************************************)
EXTENDS Integers, Sequences, SequencesExt, FiniteSetsExt

CONSTANTS Pipeline,    \* pipelines that report on the pull request
          Key,         \* keys of sticky comments
          Branch,      \* branches that want a pull request
          GitHubPage,  \* per_page of the GitHub driver
          GiteaPage,   \* limit of the Gitea driver
          MaxComments, \* bound: comments ever made
          MaxPulls     \* bound: pull requests ever opened

ASSUME ForgeAssumption ==
  /\ GitHubPage \in Nat \ {0} /\ GiteaPage \in Nat \ {0}
  /\ MaxComments \in Nat /\ MaxPulls \in Nat

VARIABLES
  kind,      \* forge.Kind
  comments,  \* the comments, oldest first
  nextId,    \* history: comments ever made
  pulls,     \* the open pull requests, newest first
  opened,    \* history: pull requests ever opened
  at,        \* at[p]: the call p is in, and how far
  shaken,    \* history: keys with overlapping upserts, or a deletion during one
  why        \* why[p]: history: what kept p's EnsurePR from adopting

forgeVars == <<kind, comments, nextId, pulls, opened, at, shaken, why>>

Idle == [op |-> "idle"]

ForgeInit ==
  /\ kind \in {"github", "gitea"}
  /\ comments = <<>> /\ nextId = 0
  /\ pulls = <<>> /\ opened = 0
  /\ at = [p \in Pipeline |-> Idle]
  /\ shaken = {} /\ why = [p \in Pipeline |-> {}]

Go(p, call) == at' = [at EXCEPT ![p] = call]

Upserting(p) == IF at[p].op \in {"list", "update", "create"} THEN {at[p].key} ELSE {}

-----------------------------------------------------------------------------
(* UpsertSticky *)

UpsertSticky(p, k) ==
  /\ at[p].op \in {"idle", "conflict"}
  /\ Go(p, [op |-> "list", key |-> k, page |-> 1, found |-> 0])
  /\ shaken' = IF \E o \in Pipeline : k \in Upserting(o) THEN shaken \cup {k} ELSE shaken
  /\ UNCHANGED <<kind, comments, nextId, pulls, opened, why>>

Page(s, size, page) == SubSeq(s, size * (page - 1) + 1, Min({size * page, Len(s)}))

(* ListIssueComments of the two drivers: one page, and whether it is the last *)
gitHubBatch(page) == Page(comments, GitHubPage, page)
giteaBatch(page)  == Page(comments, GiteaPage, page)

Batch(page)  == IF kind = "github" THEN gitHubBatch(page) ELSE giteaBatch(page)

(* Mutant of LastPage: pages are not followed. *)
FirstPage(batch) == TRUE

LastPage(batch) == Len(batch) < (IF kind = "github" THEN GitHubPage ELSE GiteaPage)

(* The first comment of a batch that carries the marker, 0 without one. *)
Marked(batch, k) ==
  LET hits == {i \in 1..Len(batch) : k \in batch[i].marks}
  IN  IF hits = {} THEN 0 ELSE batch[CHOOSE i \in hits : \A j \in hits : i <= j].id

(* Once all pages are in, the first comment with the marker is updated. *)
Decide(k, found) ==
  IF found = 0 THEN [op |-> "create", key |-> k] ELSE [op |-> "update", key |-> k, id |-> found]

ListIssueComments(p) ==
  /\ at[p].op = "list"
  /\ LET batch == Batch(at[p].page)
         found == IF at[p].found # 0 THEN at[p].found ELSE Marked(batch, at[p].key)
     IN  Go(p, IF LastPage(batch) THEN Decide(at[p].key, found)
               ELSE [at[p] EXCEPT !.page = @ + 1, !.found = found])
  /\ UNCHANGED <<kind, comments, nextId, pulls, opened, shaken, why>>

(* The comment's body is replaced, and with it its markers; a comment that is *)
(* gone makes the call fail.                                                  *)
UpdateIssueComment(p) ==
  /\ at[p].op = "update"
  /\ comments' = [i \in 1..Len(comments) |->
       IF comments[i].id = at[p].id
         THEN [comments[i] EXCEPT !.marks = {at[p].key}, !.sticky = TRUE] ELSE comments[i]]
  /\ Go(p, Idle)
  /\ UNCHANGED <<kind, nextId, pulls, opened, shaken, why>>

Post(marks, sticky) ==
  /\ nextId < MaxComments
  /\ nextId' = nextId + 1
  /\ comments' = Append(comments, [id |-> nextId', marks |-> marks, sticky |-> sticky])

CreateIssueComment(p) ==
  /\ at[p].op = "create"
  /\ Post({at[p].key}, TRUE)
  /\ Go(p, Idle)
  /\ UNCHANGED <<kind, pulls, opened, shaken, why>>

(* do, statusError: any request of the upsert may fail, and the call returns. *)
UpsertFails(p) ==
  /\ Upserting(p) # {}
  /\ Go(p, Idle)
  /\ UNCHANGED <<kind, comments, nextId, pulls, opened, shaken, why>>

-----------------------------------------------------------------------------
(* EnsurePR *)

EnsurePR(p, h) ==
  /\ at[p].op \in {"idle", "conflict"}
  /\ Go(p, [op |-> "find", head |-> h])
  /\ why' = [why EXCEPT ![p] = {}]
  /\ UNCHANGED <<kind, comments, nextId, pulls, opened, shaken>>

Of(s, h) == \E i \in 1..Len(s) : s[i].head = h

(* Mutant of gitHubFinds: the branch is left out of the query. *)
gitHubFindsAny(h) == Of(Page(pulls, 1, 1), h)

(* FindOpenPRByHead: GitHub filters by branch and one result is enough; of    *)
(* Gitea's list the first page is searched.                                   *)
gitHubFinds(h) == Of(pulls, h)
giteaFinds(h)  == Of(Page(pulls, GiteaPage, 1), h)

Finds(h) == IF kind = "github" THEN gitHubFinds(h) ELSE giteaFinds(h)

Adopt(p) ==
  /\ at[p].op = "find" /\ Finds(at[p].head)
  /\ Go(p, Idle)
  /\ UNCHANGED <<kind, comments, nextId, pulls, opened, shaken, why>>

NotFound(p) ==
  /\ at[p].op = "find" /\ ~Finds(at[p].head)
  /\ why' = [why EXCEPT ![p] = IF Of(pulls, at[p].head) THEN {"beyond the page"} ELSE {}]
  /\ Go(p, [op |-> "open", head |-> at[p].head])
  /\ UNCHANGED <<kind, comments, nextId, pulls, opened, shaken>>

(* Every error of the lookup is taken for "there is none". *)
FindFails(p) ==
  /\ at[p].op = "find"
  /\ why' = [why EXCEPT ![p] = {"lookup failed"}]
  /\ Go(p, [op |-> "open", head |-> at[p].head])
  /\ UNCHANGED <<kind, comments, nextId, pulls, opened, shaken>>

Open(h) ==
  /\ opened < MaxPulls /\ ~Of(pulls, h)
  /\ opened' = opened + 1
  /\ pulls' = <<[number |-> opened', head |-> h]>> \o pulls

(* Whoever is about to create one for the same branch has lost the race. *)
Raced(h) == [o \in Pipeline |->
  IF at[o].op = "open" /\ at[o].head = h THEN why[o] \cup {"raced"} ELSE why[o]]

Create(p) ==
  /\ at[p].op = "open"
  /\ Open(at[p].head)
  /\ why' = [Raced(at[p].head) EXCEPT ![p] = {}]
  /\ Go(p, Idle)
  /\ UNCHANGED <<kind, comments, nextId, shaken>>

(* The forge has one open pull request per branch and refuses another. *)
Conflict(p) ==
  /\ at[p].op = "open" /\ Of(pulls, at[p].head)
  /\ Go(p, [op |-> "conflict"])
  /\ UNCHANGED <<kind, comments, nextId, pulls, opened, shaken, why>>

CreateFails(p) ==
  /\ at[p].op = "open"
  /\ Go(p, Idle)
  /\ UNCHANGED <<kind, comments, nextId, pulls, opened, shaken, why>>

-----------------------------------------------------------------------------
(* People *)

(* Somebody comments, and may quote a comment with its markers. *)
PersonComments ==
  /\ \E marks \in {{}} \cup {comments[i].marks : i \in 1..Len(comments)} : Post(marks, FALSE)
  /\ UNCHANGED <<kind, pulls, opened, at, shaken, why>>

PersonDeletes(i) ==
  /\ comments' = RemoveAt(comments, i)
  /\ shaken' = shaken \cup UNION {Upserting(p) : p \in Pipeline}
  /\ UNCHANGED <<kind, nextId, pulls, opened, at, why>>

PersonOpens(h) ==
  /\ Open(h)
  /\ why' = Raced(h)
  /\ UNCHANGED <<kind, comments, nextId, at, shaken>>

PersonCloses(i) ==
  /\ pulls' = RemoveAt(pulls, i)
  /\ UNCHANGED <<kind, comments, nextId, opened, at, shaken, why>>

-----------------------------------------------------------------------------

StickyNext ==
  \/ \E p \in Pipeline :
       \/ \E k \in Key : UpsertSticky(p, k)
       \/ ListIssueComments(p) \/ UpdateIssueComment(p) \/ CreateIssueComment(p) \/ UpsertFails(p)
  \/ PersonComments \/ \E i \in 1..Len(comments) : PersonDeletes(i)

PullNext ==
  \/ \E p \in Pipeline :
       \/ \E h \in Branch : EnsurePR(p, h)
       \/ Adopt(p) \/ NotFound(p) \/ FindFails(p) \/ Create(p) \/ Conflict(p) \/ CreateFails(p)
  \/ \E h \in Branch : PersonOpens(h)
  \/ \E i \in 1..Len(pulls) : PersonCloses(i)

ForgeSpec == ForgeInit /\ [][StickyNext \/ PullNext]_forgeVars

-----------------------------------------------------------------------------
(* Properties *)

(* Over any number of pages, pipelines, failed requests and retries after     *)
(* lost answers, one key has one sticky comment, and people quoting or        *)
(* deleting one do not change that: only two upserts of the key at the same   *)
(* time, or a deletion that moves comments from one page to another while     *)
(* they are read, can make a second (sticky.go UpsertSticky).                 *)
OneSticky ==
  \A k \in Key \ shaken, i, j \in 1..Len(comments) :
    /\ comments[i].sticky /\ comments[j].sticky
    /\ k \in comments[i].marks \cap comments[j].marks
    => i = j

(* EnsurePR ends in a conflict only if somebody opened the pull request after *)
(* it looked, its look-up failed, or, on Gitea alone, there are more open     *)
(* pull requests than one page shows (forge.go: "returns the same PR rather   *)
(* than a duplicate-create error").                                           *)
ConflictIsExplained ==
  \A p \in Pipeline : at[p].op = "conflict" =>
    /\ why[p] # {}
    /\ kind = "github" => "beyond the page" \notin why[p]
=============================================================================
