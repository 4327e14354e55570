------------------------------ MODULE Publishing ------------------------------
(***************************************************************************)
(* The editorial workflow of translations (products, artists, stories and  *)
(* activities share i18ncontent) and the sitemap rebuilt after it.         *)
(*                                                                         *)
(*   Service.AdminTransition...  reads the status, judges the move, writes *)
(*                               the new status whatever is there by then, *)
(*                               and asks for a rebuild                    *)
(*   Service.AdminUpdate...      reads the status, judges the edit, writes *)
(*   worker, sitemap:rebuild     reads what is published, writes the file  *)
(*                                                                         *)
(* GET /sitemap.xml of the API builds its answer anew; the file is what is *)
(* served from the store.                                                  *)
(*                                                                         *)
(* A definition whose comment begins with "Mutant" is no part of the model *)
(* (see OrderPayment).                                                     *)
(***************************************************************************)
EXTENDS Naturals, FiniteSets

CONSTANTS Pages,         \* translations: an entity in a locale
          Desks,         \* CMS requests that can be in flight at once
          Builders,      \* worker goroutines that rebuild the sitemap
          MaxEdits,      \* bound on the edits of a page
          MaxRebuilds,   \* bound on the jobs in the queue
          PubMaxFaults   \* bound on crashes, lost enqueues and failed rebuilds

ASSUME MaxEditsAssumption == MaxEdits \in Nat
ASSUME MaxRebuildsAssumption == MaxRebuilds \in Nat
ASSUME PubMaxFaultsAssumption == PubMaxFaults \in Nat

VARIABLES page,       \* status of the translation; "none" before and "gone" after
          wording,    \* number of edits its text has seen
          slug,       \* number of them that changed its slug
          desk,       \* CMS requests in flight
          rebuilds,   \* sitemap:rebuild jobs in the queue
          builder,    \* what each worker goroutine has read and not yet written
          sitemap,    \* the addresses in sitemap.xml
          slipped,    \* whether something left the file stale and nothing put it right since
          pubFaults   \* faults so far

pubVars == <<page, wording, slug, desk, rebuilds, builder, sitemap, slipped, pubFaults>>

ContentStatus == {"draft", "in_review", "published", "rejected"}
Actors == {"editor", "super_admin"}
Addresses == Pages \X (0..MaxEdits)
\* What the site shows: the addresses of the pages that are published.
Published == {a \in Addresses : page[a[1]] = "published" /\ slug[a[1]] = a[2]}

\* `seen` is the status read, `to` the target of a move, `passed` whether another
\* request has changed the status since.
IdleDesk == [at |-> "idle"]
DeskStates ==
    {IdleDesk, [at |-> "notify"]}
      \cup [at : {"write"}, page : Pages, actor : Actors, seen : ContentStatus,
            to : ContentStatus, passed : BOOLEAN]
      \cup [at : {"edit"}, page : Pages, actor : Actors, seen : ContentStatus,
            to : {"text"}, passed : BOOLEAN]
\* `passed`: another rebuild has written the file since this one read.
IdleBuilder == [at |-> "idle", read |-> {}, passed |-> FALSE]

PubTypeOK ==
    /\ page \in [Pages -> ContentStatus \cup {"none", "gone"}]
    /\ wording \in [Pages -> 0..MaxEdits]
    /\ slug \in [Pages -> 0..MaxEdits]
    /\ desk \in [Desks -> DeskStates]
    /\ rebuilds \in 0..MaxRebuilds
    /\ builder \in [Builders -> [at : {"idle", "put"}, read : SUBSET Addresses, passed : BOOLEAN]]
    /\ sitemap \subseteq Addresses
    /\ slipped \in BOOLEAN
    /\ pubFaults \in 0..PubMaxFaults

PubInit ==
    /\ page = [p \in Pages |-> "none"]
    /\ wording = [p \in Pages |-> 0]
    /\ slug = [p \in Pages |-> 0]
    /\ desk = [d \in Desks |-> IdleDesk]
    /\ rebuilds = 0
    /\ builder = [w \in Builders |-> IdleBuilder]
    /\ sitemap = {}
    /\ slipped = FALSE
    /\ pubFaults = 0

PubFault == pubFaults < PubMaxFaults /\ pubFaults' = pubFaults + 1
Row(p) == page[p] \notin {"none", "gone"}

\* Every other request on the page now acts on a status that has passed.
Overtaken(d, p, r) ==
    [e \in Desks |->
        IF e = d THEN r
        ELSE IF desk[e].at \in {"write", "edit"} /\ desk[e].page = p THEN [desk[e] EXCEPT !.passed = TRUE]
        ELSE desk[e]]

-------------------------------------------------------------------------------
(* The workflow *)

\* Mutant: a super admin may publish a draft at once.
allowedAtOnce(from, to, actor) ==
    \/ actor \in Actors /\ <<from, to>> \in {<<"draft", "in_review">>, <<"rejected", "draft">>}
    \/ /\ actor = "super_admin"
       /\ <<from, to>> \in {<<"draft", "published">>, <<"in_review", "published">>,
                            <<"in_review", "rejected">>, <<"published", "draft">>}

\* The matrix of moves.
allowed(from, to, actor) ==
    \/ actor \in Actors /\ <<from, to>> \in {<<"draft", "in_review">>, <<"rejected", "draft">>}
    \/ /\ actor = "super_admin"
       /\ <<from, to>> \in {<<"in_review", "published">>, <<"in_review", "rejected">>,
                            <<"published", "draft">>}

CanEdit(s, actor) == actor = "super_admin" \/ s \in {"draft", "rejected"}

CreateWithTranslation(p) ==
    /\ page[p] = "none"
    /\ page' = [page EXCEPT ![p] = "draft"]
    /\ UNCHANGED <<wording, slug, desk, rebuilds, builder, sitemap, slipped, pubFaults>>

\* The request reads the status and judges the move or edit; a refused one ends
\* with a 409.  Only a super admin reaches approve, reject and unpublish.
GetTranslationStatus(d, p, actor, to) ==
    /\ desk[d] = IdleDesk /\ Row(p)
    /\ to \in {"in_review", "text"} \/ actor = "super_admin"
    /\ to = "text" => CanEdit(page[p], actor)
    /\ to # "text" => allowed(page[p], to, actor)
    /\ desk' = [desk EXCEPT ![d] = [at |-> IF to = "text" THEN "edit" ELSE "write", page |-> p,
                                    actor |-> actor, seen |-> page[p], to |-> to, passed |-> FALSE]]
    /\ UNCHANGED <<page, wording, slug, rebuilds, builder, sitemap, slipped, pubFaults>>

\* The move takes down a live page that the request took for something else.
TakesDownUnseen(r) == page[r.page] = "published" /\ "published" \notin {r.seen, r.to}

\* Mutant: only publishing asks for a rebuild.
UpdateStatusOfPublished(d) ==
    LET r == desk[d] IN
    /\ r.at = "write" /\ Row(r.page)
    /\ page' = [page EXCEPT ![r.page] = r.to]
    /\ desk' = Overtaken(d, r.page,
           IF r.to = "published" THEN [at |-> "notify"] ELSE IdleDesk)
    /\ slipped' = (slipped \/ TakesDownUnseen(r))
    /\ UNCHANGED <<wording, slug, rebuilds, builder, sitemap, pubFaults>>

\* UPDATE by id, whatever the status is now; of a deleted row it is a 404.
UpdateTranslationStatus(d) ==
    LET r == desk[d] IN
    /\ r.at = "write"
    /\ IF Row(r.page)
       THEN /\ page' = [page EXCEPT ![r.page] = r.to]
            /\ desk' = Overtaken(d, r.page,
                   IF "published" \in {r.seen, r.to} THEN [at |-> "notify"] ELSE IdleDesk)
            /\ slipped' = (slipped \/ TakesDownUnseen(r))
       ELSE desk' = [desk EXCEPT ![d] = IdleDesk] /\ UNCHANGED <<page, slipped>>
    /\ UNCHANGED <<wording, slug, rebuilds, builder, sitemap, pubFaults>>

\* The rebuild is asked for when either end of the move is "published"; an error
\* of the queue is logged.
EnqueueSitemapRebuild(d) ==
    /\ desk[d].at = "notify"
    /\ desk' = [desk EXCEPT ![d] = IdleDesk]
    /\ \/ rebuilds < MaxRebuilds /\ rebuilds' = rebuilds + 1 /\ UNCHANGED <<slipped, pubFaults>>
       \/ PubFault /\ slipped' = TRUE /\ UNCHANGED rebuilds
    /\ UNCHANGED <<page, wording, slug, builder, sitemap>>

\* The text changes, and the slug if the edit names one; the status does not.  No
\* rebuild is asked for, though the sitemap's addresses are made from the slugs.
UpdateTranslation(d) ==
    LET r == desk[d] IN
    /\ r.at = "edit"
    /\ desk' = [desk EXCEPT ![d] = IdleDesk]
    /\ IF Row(r.page)
       THEN /\ wording[r.page] < MaxEdits /\ wording' = [wording EXCEPT ![r.page] = @ + 1]
            /\ \/ UNCHANGED <<slug, slipped>>
               \/ /\ slug[r.page] < MaxEdits /\ slug' = [slug EXCEPT ![r.page] = @ + 1]
                  /\ slipped' = (slipped \/ page[r.page] = "published")
       ELSE UNCHANGED <<wording, slug, slipped>>
    /\ UNCHANGED <<page, rebuilds, builder, sitemap, pubFaults>>

\* A deleted entity takes its translations along.  No rebuild is asked for.
Delete(p) ==
    /\ Row(p)
    /\ page' = [page EXCEPT ![p] = "gone"]
    /\ slipped' = (slipped \/ page[p] = "published")
    /\ UNCHANGED <<wording, slug, desk, rebuilds, builder, sitemap, pubFaults>>

-------------------------------------------------------------------------------
(* The sitemap *)

BuildXML(w) ==
    /\ builder[w].at = "idle" /\ rebuilds > 0
    /\ rebuilds' = rebuilds - 1
    /\ builder' = [builder EXCEPT ![w] = [at |-> "put", read |-> Published, passed |-> FALSE]]
    /\ UNCHANGED <<page, wording, slug, desk, sitemap, slipped, pubFaults>>

\* The file is right again when it holds what is published now.  A rebuild that
\* overwrites a file written since it read may put an older reading over a newer.
Rebuild(w) ==
    /\ builder[w].at = "put"
    /\ sitemap' = builder[w].read
    /\ builder' = [v \in Builders |->
           IF v = w THEN IdleBuilder
           ELSE [builder[v] EXCEPT !.passed = (builder[v].at = "put")]]
    /\ slipped' = (builder[w].read # Published /\ (slipped \/ builder[w].passed))
    /\ UNCHANGED <<page, wording, slug, desk, rebuilds, pubFaults>>

\* A failed rebuild goes back to the queue; its retries may be used up.
RebuildFails(w) ==
    /\ builder[w].at = "put"
    /\ builder' = [builder EXCEPT ![w] = IdleBuilder]
    /\ \/ rebuilds < MaxRebuilds /\ rebuilds' = rebuilds + 1 /\ UNCHANGED slipped
       \/ slipped' = TRUE /\ UNCHANGED rebuilds
    /\ PubFault
    /\ UNCHANGED <<page, wording, slug, desk, sitemap>>

\* The serve process stops; jobs and rows survive.
CMSCrash ==
    /\ \E d \in Desks : desk[d] # IdleDesk
    /\ desk' = [d \in Desks |-> IdleDesk]
    /\ slipped' = (slipped \/ \E d \in Desks : desk[d].at = "notify")
    /\ PubFault
    /\ UNCHANGED <<page, wording, slug, rebuilds, builder, sitemap>>

-------------------------------------------------------------------------------
DeskGoesOn(d) ==
    UpdateTranslationStatus(d) \/ EnqueueSitemapRebuild(d) \/ UpdateTranslation(d)

PubNext ==
    \/ \E p \in Pages : CreateWithTranslation(p) \/ Delete(p)
    \/ \E d \in Desks, p \in Pages, a \in Actors, to \in ContentStatus \cup {"text"} :
           GetTranslationStatus(d, p, a, to)
    \/ \E d \in Desks : DeskGoesOn(d)
    \/ \E w \in Builders : BuildXML(w) \/ Rebuild(w) \/ RebuildFails(w)
    \/ CMSCrash

PubSpec == PubInit /\ [][PubNext]_pubVars

-------------------------------------------------------------------------------
(* Properties *)

\* A page goes live out of review and by a super admin's request, unless another
\* request changed its status after that request had read it: the UPDATE does not
\* look, and what goes live then may be a draft that nobody reviewed.
OnlyReviewedGoesLive ==
    [][\A p \in Pages : page[p] # "published" /\ page'[p] = "published" =>
         \E d \in Desks : /\ desk[d].at = "write" /\ desk'[d].at = "notify"
                          /\ desk[d].page = p /\ desk[d].actor = "super_admin"
                          /\ page[p] = "in_review" \/ desk[d].passed]_pubVars

\* An editor's request changes the text of a page that is in review or live only
\* if its status was changed under the request.
EditorsLeaveLiveTextAlone ==
    [][\A p \in Pages : wording'[p] # wording[p] =>
         \E d \in Desks : /\ desk[d].at = "edit" /\ desk[d].page = p /\ desk'[d] = IdleDesk
                          /\ \/ desk[d].actor = "super_admin"
                             \/ page[p] \in {"draft", "rejected"}
                             \/ desk[d].passed]_pubVars

\* With no request, job or rebuild under way the file lists the addresses of what
\* is published, unless since it was last right
\*   - a rebuild was lost to a fault,
\*   - a rebuild overwrote what another had written after it read,
\*   - a move took down a live page that its request had read before it went live,
\*   - a live page was deleted or got another slug.
SitemapIsFresh ==
    (/\ rebuilds = 0
     /\ \A d \in Desks : desk[d].at # "notify"
     /\ \A w \in Builders : builder[w].at = "idle"
     /\ ~slipped)
    => sitemap = Published
===============================================================================
